---- MODULE Spec2Model ----
(***************************************************************************)
(* faleproxy: the POST /fetch handler of app.js.  A request carries a url, *)
(* the handler validates and normalizes it, fetches the page, rewrites the *)
(* parsed document (base tag, absolute URLs, Yale -> Fale in text nodes,   *)
(* title, injected style) and answers with one JSON response.  The page    *)
(* script of app.js follows: debounce, the submit handler of the form and  *)
(* the iframe the result is rendered in.                                   *)
(*                                                                         *)
(* Strings are TLA+ strings (Len, SubSeq and \o act on them character by   *)
(* character).  A fetched page is a markup term; cheerio's document is a   *)
(* table of nodes with identities, as the library's node objects are.      *)
(***************************************************************************)
EXTENDS Integers, Sequences, FiniteSets, TLC

VARIABLES
    pc,         \* per request: the handler's position
    reqUrl,     \* per request: req.body.url, a JavaScript value
    remote,     \* per request: what the outbound GET will meet
    url,        \* per request: the handler's local `url`
    gets,       \* per request: the outbound GETs issued, in order
    html,       \* per request: response.data
    dom,        \* per request: the cheerio document $
    title,      \* per request: the local `title`
    error,      \* per request: the message of the error caught
    responses   \* per request: the responses sent, in order

\* The browser script: the page's elements, and the submit handler's runs.
VARIABLES
    urlInput,           \* urlInput.value
    loadingElement,     \* loadingElement.classList has 'hidden'
    resultContainer,    \* resultContainer.classList has 'hidden'
    errorMessage,       \* errorMessage: [hidden, textContent]
    originalUrlElement, \* originalUrlElement: [textContent, href]
    pageTitleElement,   \* pageTitleElement.textContent
    contentDisplay,     \* what was written into the iframe of contentDisplay
    fetched,            \* the bodies POSTed to /fetch, in order
    handler             \* per submission: the handler's position and local `url`

\* A function made by debounce(func, wait), and the clock.
VARIABLES
    wait,       \* the wait argument, in ms
    now,        \* the time, in ms
    timeout,    \* the closure's `timeout`: the pending timer
    calls,      \* the calls made to the debounced function: [at, args]
    invoked     \* the invocations of func: [at, args, call]

\* The iframe a successful submission renders the page in, lines 198-305.
VARIABLES
    iframe,                 \* "none", "written" (document closed) or "loaded" (onload ran)
    links,                  \* the a elements of the rendered document: [kind, target, rel]
    images,                 \* its img elements: [complete, listeners]
    layout,                 \* [doc, body]: the scrollHeight of documentElement and of body
    resizeObserver,         \* "none" (the browser has none), "idle", "observing" or "disconnected"
    heightAdjustmentCount,  \* the closure's counter
    iframeHeight,           \* iframe.style.height in px, 0 while it is not set
    adjustments,            \* how often iframe.style.height was set
    finalTimer,             \* the timer of line 297
    disconnectTimer         \* the timer of line 287

server == <<pc, reqUrl, remote, url, gets, html, dom, title, error, responses>>

browser ==
    <<urlInput, loadingElement, resultContainer, errorMessage, originalUrlElement,
      pageTitleElement, contentDisplay, fetched, handler>>

timers == <<wait, now, timeout, calls, invoked>>

frame ==
    <<iframe, links, images, layout, resizeObserver, heightAdjustmentCount, iframeHeight,
      adjustments, finalTimer, disconnectTimer>>

vars == <<server, browser, timers, frame>>

Reqs == {"r1", "r2"}

\* The submissions of the form.
Subs == {"s1", "s2"}

\* What fetch('/fetch', ...) settles with: a rejection with a message, or a
\* response whose json() gives data or rejects with a message.  A field the
\* data lacks reads as "".
Rejection(message) ==
    [kind |-> "rejected", ok |-> FALSE, json |-> FALSE, message |-> message,
     data |-> [error |-> "", title |-> "", content |-> ""]]

NotJson(ok, message) ==
    [kind |-> "response", ok |-> ok, json |-> FALSE, message |-> message,
     data |-> [error |-> "", title |-> "", content |-> ""]]

Json(ok, data) ==
    [kind |-> "response", ok |-> ok, json |-> TRUE, message |-> "", data |-> data]

NoResponse == Rejection("")

\* One run of the submit handler: its position, its local `url` and `response`.
Handler(at, u, response) == [pc |-> at, url |-> u, response |-> response]

\* clearTimeout has run, or no timer was ever set.
NoTimer == [armed |-> FALSE, due |-> 0, args |-> "", call |-> 0]

-----------------------------------------------------------------------------
(* Strings *)

Char(s, i) == SubSeq(s, i, i)

\* s.substring(n)
Drop(s, n) == IF n >= Len(s) THEN "" ELSE SubSeq(s, n + 1, Len(s))

\* s.substring(0, n)
Take(s, n) == IF n >= Len(s) THEN s ELSE IF n <= 0 THEN "" ELSE SubSeq(s, 1, n)

\* String.prototype.startsWith
StartsWith(s, p) == Len(s) >= Len(p) /\ Take(s, Len(p)) = p

UpperChars == "ABCDEFGHIJKLMNOPQRSTUVWXYZ"

LowerChars == "abcdefghijklmnopqrstuvwxyz"

LowerChar(c) ==
    IF \E i \in 1..Len(UpperChars) : Char(UpperChars, i) = c
    THEN Char(LowerChars, CHOOSE i \in 1..Len(UpperChars) : Char(UpperChars, i) = c)
    ELSE c

RECURSIVE ToLowerCase(_)
ToLowerCase(s) ==
    IF s = "" THEN "" ELSE LowerChar(Char(s, 1)) \o ToLowerCase(Drop(s, 1))

\* Whether pat occurs in s at position i (1-based).
OccursAt(s, pat, i) == i + Len(pat) - 1 <= Len(s) /\ SubSeq(s, i, i + Len(pat) - 1) = pat

Includes(s, pat) == \E i \in 1..Len(s) : OccursAt(s, pat, i)

\* s.replace(/pat/g, rep) for a literal pat: leftmost matches, left to right,
\* never overlapping; the replacement text is not scanned again.
RECURSIVE ReplaceAll(_, _, _)
ReplaceAll(s, pat, rep) ==
    IF Len(s) < Len(pat) THEN s
    ELSE IF Take(s, Len(pat)) = pat
         THEN rep \o ReplaceAll(Drop(s, Len(pat)), pat, rep)
         ELSE Char(s, 1) \o ReplaceAll(Drop(s, 1), pat, rep)

\* .replace(/Yale/g, 'Fale').replace(/YALE/g, 'FALE').replace(/yale/g, 'fale')
YaleToFale(text) ==
    ReplaceAll(ReplaceAll(ReplaceAll(text, "Yale", "Fale"), "YALE", "FALE"), "yale", "fale")

-----------------------------------------------------------------------------
(* JavaScript values of req.body.url *)

Undefined == [kind |-> "undefined", str |-> "", num |-> 0]

Str(s) == [kind |-> "string", str |-> s, num |-> 0]

Num(n) == [kind |-> "number", str |-> "", num |-> n]

\* A presence check that takes only a missing url for absent.
TruthyUnlessUndefined(v) == v.kind # "undefined"

\* !url is false
Truthy(v) ==
    CASE v.kind = "undefined" -> FALSE
      [] v.kind = "string" -> v.str # ""
      [] v.kind = "number" -> v.num # 0

\* The scheme test without the i flag.
MatchesSchemeExactCase(s) == Take(s, 7) = "http://" \/ Take(s, 8) = "https://"

\* url.match(/^https?:\/\//i) is not null
MatchesScheme(s) ==
    \/ ToLowerCase(Take(s, 7)) = "http://"
    \/ ToLowerCase(Take(s, 8)) = "https://"

\* The value of `url` after lines 28-31, for a string.
NormalizeUrl(s) == IF ~MatchesScheme(s) THEN "https://" \o s ELSE s

-----------------------------------------------------------------------------
(* Markup terms (the fetched page, the serialized result) *)

Tag(name, attribs, children) ==
    [type |-> "tag", name |-> name, attribs |-> attribs, children |-> children, data |-> ""]

Text(data) ==
    [type |-> "text", name |-> "", attribs |-> <<>>, children |-> <<>>, data |-> data]

Comment(data) ==
    [type |-> "comment", name |-> "", attribs |-> <<>>, children |-> <<>>, data |-> data]

Document(children) ==
    [type |-> "root", name |-> "", attribs |-> <<>>, children |-> children, data |-> ""]

Attr(name, value) == [name |-> name, value |-> value]

-----------------------------------------------------------------------------
(* The document table: node i of the sequence has identity i; children are *)
(* identities.  Node 1 is the root.                                        *)

RECURSIVE Size(_)
RECURSIVE SizeAll(_)
Size(t) == 1 + SizeAll(t.children)
SizeAll(ts) == IF ts = <<>> THEN 0 ELSE Size(Head(ts)) + SizeAll(Tail(ts))

RECURSIVE KidIds(_, _)
KidIds(ts, id) ==
    IF ts = <<>> THEN <<>> ELSE <<id>> \o KidIds(Tail(ts), id + Size(Head(ts)))

RECURSIVE Build(_, _)
RECURSIVE BuildAll(_, _)
Build(t, id) ==
    <<[type |-> t.type, name |-> t.name, attribs |-> t.attribs,
       children |-> KidIds(t.children, id + 1), data |-> t.data]>>
    \o BuildAll(t.children, id + 1)
BuildAll(ts, id) ==
    IF ts = <<>> THEN <<>>
    ELSE Build(Head(ts), id) \o BuildAll(Tail(ts), id + Size(Head(ts)))

\* cheerio.load(html, ...): the parsed document, preorder identities.
Load(doc) == Build(doc, 1)

\* $.html(): the markup of the tree under node id.
RECURSIVE ToTerm(_, _)
ToTerm(nodes, id) ==
    [type |-> nodes[id].type, name |-> nodes[id].name, attribs |-> nodes[id].attribs,
     children |-> [k \in 1..Len(nodes[id].children) |-> ToTerm(nodes, nodes[id].children[k])],
     data |-> nodes[id].data]

\* The identities of the tree under node id, in document order.
RECURSIVE Preorder(_, _)
RECURSIVE PreorderAll(_, _)
Preorder(nodes, id) == <<id>> \o PreorderAll(nodes, nodes[id].children)
PreorderAll(nodes, ids) ==
    IF ids = <<>> THEN <<>>
    ELSE Preorder(nodes, Head(ids)) \o PreorderAll(nodes, Tail(ids))

\* $(name): the elements called name, in document order.
ByName(nodes, name) ==
    LET IsIt(id) == nodes[id].type = "tag" /\ nodes[id].name = name
    IN  SelectSeq(Preorder(nodes, 1), IsIt)

\* $('*'): every element, in document order.
AllElements(nodes) ==
    LET IsTag(id) == nodes[id].type = "tag"
    IN  SelectSeq(Preorder(nodes, 1), IsTag)

HasAttr(node, a) == \E k \in 1..Len(node.attribs) : node.attribs[k].name = a

\* $(el).attr(a): the value, when the element has the attribute.
AttrValue(node, a) ==
    node.attribs[CHOOSE k \in 1..Len(node.attribs) : node.attribs[k].name = a].value

\* $(el).attr(a, v)
SetAttr(node, a, v) ==
    [node EXCEPT !.attribs =
        [k \in 1..Len(node.attribs) |->
            IF node.attribs[k].name = a THEN Attr(a, v) ELSE node.attribs[k]]]

\* node.parent and the node's place among its parent's children.
IsChildOf(nodes, id, p) == \E k \in 1..Len(nodes[p].children) : nodes[p].children[k] = id

ParentOf(nodes, id) == CHOOSE p \in 1..Len(nodes) : IsChildOf(nodes, id, p)

IndexIn(nodes, id, p) == CHOOSE k \in 1..Len(nodes[p].children) : nodes[p].children[k] = id

\* textContent of the tree under node id.
RECURSIVE TextContent(_, _)
RECURSIVE TextContentAll(_, _)
TextContent(nodes, id) ==
    IF nodes[id].type = "text" THEN nodes[id].data
    ELSE IF nodes[id].type = "comment" THEN ""
    ELSE TextContentAll(nodes, nodes[id].children)
TextContentAll(nodes, ids) ==
    IF ids = <<>> THEN ""
    ELSE TextContent(nodes, Head(ids)) \o TextContentAll(nodes, Tail(ids))

-----------------------------------------------------------------------------
(* new URL(input, base).href, for URLs made of letters, digits and the     *)
(* delimiters : / ? # . - with no userinfo, port, backslash or character   *)
(* that is percent-encoded.                                                *)

Digits == "0123456789"

\* The characters of a string, as a set.
CharsOf(s) == {Char(s, i) : i \in 1..Len(s)}

Letters == CharsOf(LowerChars) \cup CharsOf(UpperChars)

SchemeChars == Letters \cup CharsOf(Digits) \cup {"+", "-", "."}

IsAlpha(c) == c \in Letters

IsSchemeChar(c) == c \in SchemeChars

\* The first position of s holding one of the characters cs, or 0.
IndexOfAny(s, cs) ==
    IF \E i \in 1..Len(s) : Char(s, i) \in cs
    THEN CHOOSE i \in 1..Len(s) :
            /\ Char(s, i) \in cs
            /\ \A j \in 1..(i - 1) : Char(s, j) \notin cs
    ELSE 0

\* Whether position i of s (holding a colon) ends a scheme.
EndsScheme(s, i) ==
    /\ i > 1
    /\ IsAlpha(Char(s, 1))
    /\ \A j \in 1..(i - 1) : IsSchemeChar(Char(s, j))

\* The position of the colon ending a scheme at the start of s, or 0.
SchemeColonAt(s, i) == IF EndsScheme(s, i) THEN i ELSE 0

SchemeColon(s) == SchemeColonAt(s, IndexOfAny(s, {":"}))

\* The scheme at the start of s, lower case, or "".
SchemeOf(s) == ToLowerCase(Take(s, SchemeColon(s) - 1))

\* What follows the scheme's colon.
AfterScheme(s) == Drop(s, SchemeColon(s))

SpecialSchemes == {"http", "https", "ftp", "ws", "wss"}

RECURSIVE StripSlashes(_)
StripSlashes(s) == IF StartsWith(s, "/") THEN StripSlashes(Drop(s, 1)) ELSE s

\* s cut before position i, or whole when i = 0; and the rest.
Before(s, i) == IF i = 0 THEN s ELSE Take(s, i - 1)

From(s, i) == IF i = 0 THEN "" ELSE Drop(s, i - 1)

\* s split into its path, its query (with the ?) and its fragment (with the #).
PathQuery(pq, fragment) ==
    [path |-> Before(pq, IndexOfAny(pq, {"?"})),
     query |-> From(pq, IndexOfAny(pq, {"?"})),
     fragment |-> fragment]

PathQueryFragment(s) ==
    PathQuery(Before(s, IndexOfAny(s, {"#"})), From(s, IndexOfAny(s, {"#"})))

\* The segments of a path: the texts between its slashes ("a/b/" is a, b, "").
RECURSIVE Segments(_)
Segments(p) ==
    IF IndexOfAny(p, {"/"}) = 0 THEN <<p>>
    ELSE <<Before(p, IndexOfAny(p, {"/"}))>> \o Segments(Drop(p, IndexOfAny(p, {"/"})))

Popped(out) == IF out = <<>> THEN out ELSE SubSeq(out, 1, Len(out) - 1)

\* The URL parser's path state for one segment: "." and ".." are resolved as
\* the segments arrive, onto the segments `out` already there.
AddSegment(out, seg, last) ==
    IF seg = ".." THEN (IF last THEN Append(Popped(out), "") ELSE Popped(out))
    ELSE IF seg = "." THEN (IF last THEN Append(out, "") ELSE out)
    ELSE Append(out, seg)

RECURSIVE AddSegments(_, _)
AddSegments(out, segs) ==
    IF segs = <<>> THEN out
    ELSE AddSegments(AddSegment(out, Head(segs), Len(segs) = 1), Tail(segs))

RECURSIVE JoinPath(_)
JoinPath(segs) == IF segs = <<>> THEN "" ELSE "/" \o Head(segs) \o JoinPath(Tail(segs))

InvalidUrl == [ok |-> FALSE, scheme |-> "", host |-> "", segs |-> <<>>, query |-> "", fragment |-> ""]

\* The URL of a scheme, a host and what follows the host.
UrlOf(scheme, host, pqf) ==
    IF host = "" \/ Includes(host, " ") THEN InvalidUrl
    ELSE [ok |-> TRUE, scheme |-> scheme, host |-> host,
          segs |-> AddSegments(<<>>, Segments(Drop(pqf.path, 1))),
          query |-> pqf.query, fragment |-> pqf.fragment]

\* rest is what follows the scheme and its slashes; the host ends at e.
ParseAuthority(scheme, rest, e) ==
    UrlOf(scheme, ToLowerCase(Before(rest, e)), PathQueryFragment(From(rest, e)))

\* An absolute URL with a special scheme, parsed.
ParseSpecialRest(scheme, rest) ==
    ParseAuthority(scheme, rest, IndexOfAny(rest, {"/", "?", "#"}))

ParseSpecial(s) == ParseSpecialRest(SchemeOf(s), StripSlashes(AfterScheme(s)))

Href(u) == u.scheme \o "://" \o u.host \o JoinPath(u.segs) \o u.query \o u.fragment

HrefOf(u) == [ok |-> u.ok, href |-> IF u.ok THEN Href(u) ELSE ""]

\* The base of new URL(input, base), parsed.
ParseBase(base) == IF SchemeOf(base) \in SpecialSchemes THEN ParseSpecial(base) ELSE InvalidUrl

\* A reference r without a scheme of its own, against the parsed base B.
RelativeTo(B, r) ==
    IF ~B.ok THEN B
    ELSE IF StartsWith(r.path, "/")
    THEN [B EXCEPT !.segs = AddSegments(<<>>, Segments(Drop(r.path, 1))),
                   !.query = r.query, !.fragment = r.fragment]
    ELSE IF r.path = ""
    THEN [B EXCEPT !.query = IF r.query = "" THEN @ ELSE r.query,
                   !.fragment = r.fragment]
    ELSE [B EXCEPT !.segs = AddSegments(Popped(@), Segments(r.path)),
                   !.query = r.query, !.fragment = r.fragment]

\* new URL(input, base), with the input's scheme (or "") and the parsed base.
ResolveWith(input, scheme, B) ==
    IF scheme # "" /\ scheme \notin SpecialSchemes
    THEN [ok |-> TRUE, href |-> scheme \o ":" \o AfterScheme(input)]
    ELSE IF scheme # "" /\ (scheme # B.scheme \/ StartsWith(AfterScheme(input), "//"))
    THEN HrefOf(ParseSpecial(input))
    ELSE IF scheme # ""
    THEN \* the base's own scheme with no //: a reference relative to the base
         HrefOf(RelativeTo(B, PathQueryFragment(AfterScheme(input))))
    ELSE IF StartsWith(input, "//")
    THEN HrefOf(IF B.ok THEN ParseSpecialRest(B.scheme, StripSlashes(input)) ELSE B)
    ELSE HrefOf(RelativeTo(B, PathQueryFragment(input)))

\* new URL(input, base): [ok, href]; ok is FALSE where the constructor throws
\* TypeError: Invalid URL.
Resolve(input, base) == ResolveWith(input, SchemeOf(input), ParseBase(base))

-----------------------------------------------------------------------------
(* The rewrite, lines 48-110 of app.js *)

\* The terms, parsed, become the first (front) or last children of parent.
Insert(nodes, parent, terms, front) ==
    LET first == Len(nodes) + 1
        ids == KidIds(terms, first)
        grown == nodes \o BuildAll(terms, first)
    IN  [grown EXCEPT ![parent].children = IF front THEN ids \o @ ELSE @ \o ids]

RECURSIVE InsertEach(_, _, _, _)
InsertEach(nodes, parents, terms, front) ==
    IF parents = <<>> THEN nodes
    ELSE InsertEach(Insert(nodes, Head(parents), terms, front), Tail(parents), terms, front)

\* baseTag.length && baseTag.attr('href'): the first base element has a
\* non-empty href.
HasBaseHref(nodes) ==
    LET bases == ByName(nodes, "base")
    IN  /\ bases # <<>>
        /\ HasAttr(nodes[Head(bases)], "href")
        /\ AttrValue(nodes[Head(bases)], "href") # ""

\* The local baseUrl after lines 49-53.
BaseUrlOf(nodes, u) ==
    IF HasBaseHref(nodes) THEN AttrValue(nodes[Head(ByName(nodes, "base"))], "href") ELSE u

\* Lines 51-56: without a base href, $('head').prepend(`<base href="${url}">`).
FixBase(nodes, u) ==
    IF HasBaseHref(nodes) THEN nodes
    ELSE InsertEach(nodes, ByName(nodes, "head"), <<Tag("base", <<Attr("href", u)>>, <<>>)>>, TRUE)

urlAttributes == <<"src", "href", "action", "data-src">>

\* The test of line 63 without the '#' case.
IsRelativeRefHashForgotten(attrValue) ==
    /\ attrValue # ""
    /\ ~StartsWith(attrValue, "http")
    /\ ~StartsWith(attrValue, "//")
    /\ ~StartsWith(attrValue, "javascript:")
    /\ ~StartsWith(attrValue, "data:")

\* Line 63: the value is rewritten.
IsRelativeRef(attrValue) ==
    /\ attrValue # ""
    /\ ~StartsWith(attrValue, "http")
    /\ ~StartsWith(attrValue, "//")
    /\ ~StartsWith(attrValue, "#")
    /\ ~StartsWith(attrValue, "javascript:")
    /\ ~StartsWith(attrValue, "data:")

\* Resolution against the base found in the document.
ResolutionBaseFromTag(u, baseUrl) == baseUrl

\* Line 64: the base handed to new URL is the request's url; baseUrl is
\* assigned and never read.
ResolutionBase(u, baseUrl) == u

\* $(`[${attr}]`): the elements carrying attr, in document order.
WithAttr(nodes, attr) ==
    LET Has(id) == nodes[id].type = "tag" /\ HasAttr(nodes[id], attr)
    IN  SelectSeq(Preorder(nodes, 1), Has)

\* Lines 62-65 for one element: [ok, nodes]; ok is FALSE when new URL throws.
FixOne(nodes, id, attr, attrValue, resolved) ==
    IF ~IsRelativeRef(attrValue) THEN [ok |-> TRUE, nodes |-> nodes]
    ELSE IF ~resolved.ok THEN [ok |-> FALSE, nodes |-> nodes]
    ELSE [ok |-> TRUE, nodes |-> [nodes EXCEPT ![id] = SetAttr(@, attr, resolved.href)]]

\* Lines 61-66 for one attribute; the loop ends where new URL throws.
RECURSIVE FixAttr(_, _, _, _)
FixNext(one, ids, attr, base) ==
    IF one.ok THEN FixAttr(one.nodes, ids, attr, base) ELSE one
FixAttr(nodes, ids, attr, base) ==
    IF ids = <<>> THEN [ok |-> TRUE, nodes |-> nodes]
    ELSE FixNext(FixOne(nodes, Head(ids), attr, AttrValue(nodes[Head(ids)], attr),
                        Resolve(AttrValue(nodes[Head(ids)], attr), base)),
                 Tail(ids), attr, base)

\* Lines 59-67.
RECURSIVE FixUrls(_, _, _)
FixRest(one, attrs, base) ==
    IF one.ok THEN FixUrls(one.nodes, attrs, base) ELSE one
FixUrls(nodes, attrs, base) ==
    IF attrs = <<>> THEN [ok |-> TRUE, nodes |-> nodes]
    ELSE FixRest(FixAttr(nodes, WithAttr(nodes, Head(attrs)), Head(attrs), base),
                 Tail(attrs), base)

\* A skip test that knows script alone.
SkipsScriptOnly(name) == name = "script"

\* Line 72: processNode returns at once.
SkipsElement(name) == name = "script" \/ name = "style"

(* $(this).replaceWith(newText) hands the string to the HTML parser, as every *)
(* string given to a cheerio manipulation method is: the nodes parsed from   *)
(* it take the place of the text node.  The parser is modelled for strings   *)
(* of text, '<', '>' and '/' whose tags are attribute-free tags of ordinary  *)
(* elements (no void, raw-text or table elements, no misnested formatting).  *)

Tok(kind, v) == [kind |-> kind, v |-> v]

StartsWithAlpha(s) == s # "" /\ IsAlpha(Take(s, 1))

\* The tokens of s; a tag that the end of the string cuts short is dropped.
RECURSIVE Tokens(_)
TagToken(kind, inside, gt) ==
    IF gt = 0 THEN <<>>
    ELSE <<Tok(kind, ToLowerCase(Take(inside, gt - 1)))>> \o Tokens(Drop(inside, gt))
\* After "</" and no letter: "</>" is skipped, "</" at the end is text, and
\* anything else opens a comment that runs to the next ">".
BogusComment(inside, gt) ==
    IF gt = 0 THEN <<Tok("comment", inside)>>
    ELSE <<Tok("comment", Take(inside, gt - 1))>> \o Tokens(Drop(inside, gt))
AfterLtSlash(inside) ==
    IF StartsWithAlpha(inside) THEN TagToken("close", inside, IndexOfAny(inside, {">"}))
    ELSE IF inside = "" THEN <<Tok("text", "</")>>
    ELSE IF StartsWith(inside, ">") THEN Tokens(Drop(inside, 1))
    ELSE BogusComment(inside, IndexOfAny(inside, {">"}))
AfterLt(after) ==
    IF StartsWithAlpha(after)
    THEN TagToken("open", after, IndexOfAny(after, {">"}))
    ELSE IF StartsWith(after, "/")
    THEN AfterLtSlash(Drop(after, 1))
    ELSE <<Tok("text", "<")>> \o Tokens(after)
TokensFrom(s, lt) ==
    IF lt = 0 THEN <<Tok("text", s)>>
    ELSE IF lt > 1 THEN <<Tok("text", Take(s, lt - 1))>> \o Tokens(Drop(s, lt - 1))
    ELSE AfterLt(Drop(s, 1))
Tokens(s) == IF s = "" THEN <<>> ELSE TokensFrom(s, IndexOfAny(s, {"<"}))

\* The stack of open elements: frame 1 is the fragment, the last frame the
\* current node; each frame holds the children gathered so far.
Frame(name, items) == [name |-> name, items |-> items]

\* Characters join the text node before them, if there is one.
AddText(items, v) ==
    IF items # <<>> /\ items[Len(items)].type = "text"
    THEN [items EXCEPT ![Len(items)].data = @ \o v]
    ELSE Append(items, Text(v))

\* The current node is popped and becomes a child of the node below it.
CloseTop(stack) ==
    LET n == Len(stack)
    IN  [SubSeq(stack, 1, n - 1) EXCEPT
            ![n - 1].items = Append(@, Tag(stack[n].name, <<>>, stack[n].items))]

\* An end tag pops the stack down to the nearest open element of its name.
RECURSIVE CloseTo(_, _)
CloseTo(stack, name) ==
    IF stack[Len(stack)].name = name THEN CloseTop(stack)
    ELSE CloseTo(CloseTop(stack), name)

RECURSIVE CloseAll(_)
CloseAll(stack) == IF Len(stack) = 1 THEN stack[1].items ELSE CloseAll(CloseTop(stack))

RECURSIVE BuildTree(_, _)
OnToken(t, stack) ==
    IF t.kind = "text"
    THEN [stack EXCEPT ![Len(stack)].items = AddText(@, t.v)]
    ELSE IF t.kind = "comment"
    THEN [stack EXCEPT ![Len(stack)].items = Append(@, Comment(t.v))]
    ELSE IF t.kind = "open"
    THEN Append(stack, Frame(t.v, <<>>))
    ELSE IF \E k \in 2..Len(stack) : stack[k].name = t.v
    THEN CloseTo(stack, t.v)
    ELSE stack
BuildTree(toks, stack) ==
    IF toks = <<>> THEN CloseAll(stack)
    ELSE BuildTree(Tail(toks), OnToken(Head(toks), stack))

\* The nodes the parser makes of the string.
ParseMarkup(s) == BuildTree(Tokens(s), <<Frame("", <<>>)>>)

\* The terms, parsed, take the place of node id among its parent's children.
Splice(nodes, parent, id, terms) ==
    LET first == Len(nodes) + 1
        k == IndexIn(nodes, id, parent)
        kids == nodes[parent].children
    IN  [(nodes \o BuildAll(terms, first)) EXCEPT
            ![parent].children =
                SubSeq(kids, 1, k - 1) \o KidIds(terms, first) \o SubSeq(kids, k + 1, Len(kids))]

\* Line 85 with the nodes parsed from newText; one parsed text node is taken
\* to carry the identity of the node it replaces.
ReplaceParsed(nodes, id, terms) ==
    IF Len(terms) = 1 /\ terms[1].type = "text"
    THEN [nodes EXCEPT ![id].data = terms[1].data]
    ELSE Splice(nodes, ParentOf(nodes, id), id, terms)

\* Line 85, $(this).replaceWith(newText).
ReplaceWith(nodes, id, newText) == ReplaceParsed(nodes, id, ParseMarkup(newText))

\* Lines 79-86, for the text node id.
ProcessText(nodes, id) ==
    LET text == nodes[id].data
        newText == YaleToFale(text)
    IN  IF text # newText THEN ReplaceWith(nodes, id, newText) ELSE nodes

\* Lines 70-92.
RECURSIVE processNode(_, _)
RECURSIVE ProcessContents(_, _)
processNode(nodes, element) ==
    IF SkipsElement(nodes[element].name) THEN nodes
    ELSE ProcessContents(nodes, nodes[element].children)
ProcessContents(nodes, kids) ==
    IF kids = <<>> THEN nodes
    ELSE LET this == Head(kids)
         IN  ProcessContents(
                 IF nodes[this].type = "text" THEN ProcessText(nodes, this)
                 ELSE IF nodes[this].type = "tag" THEN processNode(nodes, this)
                 ELSE nodes,
                 Tail(kids))

\* Line 95, $('*').each(processNode): once per element, each time with
\* the element's whole subtree.
RECURSIVE ProcessEach(_, _)
ProcessEach(nodes, elements) ==
    IF elements = <<>> THEN nodes
    ELSE ProcessEach(processNode(nodes, Head(elements)), Tail(elements))

\* Lines 98-101: $('title').text(), the texts of all title elements joined,
\* with the three replacements.
TitleOf(nodes) == YaleToFale(TextContentAll(nodes, ByName(nodes, "title")))

\* $(els).text(str): each element's children give way to one new text node.
RECURSIVE SetText(_, _, _)
SetText(nodes, els, str) ==
    IF els = <<>> THEN nodes
    ELSE SetText([(nodes \o Build(Text(str), Len(nodes) + 1))
                     EXCEPT ![Head(els)].children = <<Len(nodes) + 1>>],
                 Tail(els), str)

StyleCss ==
    "\n        img, video, iframe { max-width: 100%; height: auto; }\n        body { font-family: -apple-system, BlinkMacSystemFont, 'Segoe UI', Roboto, sans-serif; }\n      "

\* Lines 105-110: the markup handed to $('head').append.
StyleBlock == <<Text("\n      "), Tag("style", <<>>, <<Text(StyleCss)>>), Text("\n    ")>>

\* The block put in front of head's children.
AddStyleInFront(nodes) == InsertEach(nodes, ByName(nodes, "head"), StyleBlock, TRUE)

\* $('head').append(...): the parsed markup becomes head's last children.
AddStyle(nodes) == InsertEach(nodes, ByName(nodes, "head"), StyleBlock, FALSE)

-----------------------------------------------------------------------------
(* The handler, app.post('/fetch'), one request r *)

Response(status, body) == [status |-> status, body |-> body]

NoDom == <<>>

\* Lines 22-26.
Validate(r) ==
    /\ pc[r] = "validate"
    /\ IF ~Truthy(reqUrl[r])
       THEN /\ responses' = [responses EXCEPT
                   ![r] = Append(@, Response(400, [error |-> "URL is required"]))]
            /\ pc' = [pc EXCEPT ![r] = "done"]
       ELSE /\ pc' = [pc EXCEPT ![r] = "normalize"]
            /\ UNCHANGED responses
    /\ UNCHANGED <<reqUrl, remote, url, gets, html, dom, title, error>>
    /\ UNCHANGED <<browser, timers, frame>>

\* A handler whose `url` is one module-level variable, shared by all requests.
NormalizeIntoShared(r) ==
    /\ pc[r] = "normalize"
    /\ IF reqUrl[r].kind = "string"
       THEN /\ url' = [s \in Reqs |-> NormalizeUrl(reqUrl[r].str)]
            /\ pc' = [pc EXCEPT ![r] = "get"]
            /\ UNCHANGED error
       ELSE /\ error' = [error EXCEPT ![r] = "url.match is not a function"]
            /\ pc' = [pc EXCEPT ![r] = "catch"]
            /\ UNCHANGED url
    /\ UNCHANGED <<reqUrl, remote, gets, html, dom, title, responses>>
    /\ UNCHANGED <<browser, timers, frame>>

\* Lines 28-31; url.match is a TypeError on a value that is no string.
Normalize(r) ==
    /\ pc[r] = "normalize"
    /\ IF reqUrl[r].kind = "string"
       THEN /\ url' = [url EXCEPT ![r] = NormalizeUrl(reqUrl[r].str)]
            /\ pc' = [pc EXCEPT ![r] = "get"]
            /\ UNCHANGED error
       ELSE /\ error' = [error EXCEPT ![r] = "url.match is not a function"]
            /\ pc' = [pc EXCEPT ![r] = "catch"]
            /\ UNCHANGED url
    /\ UNCHANGED <<reqUrl, remote, gets, html, dom, title, responses>>
    /\ UNCHANGED <<browser, timers, frame>>

\* A handler that sends the GET twice.
IssueGetTwice(r) ==
    /\ pc[r] = "get"
    /\ gets' = [gets EXCEPT ![r] = Append(Append(@, url[r]), url[r])]
    /\ pc' = [pc EXCEPT ![r] = "await"]
    /\ UNCHANGED <<reqUrl, remote, url, html, dom, title, error, responses>>
    /\ UNCHANGED <<browser, timers, frame>>

\* Line 34: axios.get(url, ...) is called and awaited.
IssueGet(r) ==
    /\ pc[r] = "get"
    /\ gets' = [gets EXCEPT ![r] = Append(@, url[r])]
    /\ pc' = [pc EXCEPT ![r] = "await"]
    /\ UNCHANGED <<reqUrl, remote, url, html, dom, title, error, responses>>
    /\ UNCHANGED <<browser, timers, frame>>

\* Lines 34-39: the GET resolves with the page.
GetResolves(r) ==
    /\ pc[r] = "await"
    /\ remote[r].kind = "page"
    /\ ParseBase(url[r]).ok
    /\ html' = [html EXCEPT ![r] = remote[r].page]
    /\ pc' = [pc EXCEPT ![r] = "load"]
    /\ UNCHANGED <<reqUrl, remote, url, gets, dom, title, error, responses>>
    /\ UNCHANGED <<browser, timers, frame>>

\* Line 34: the GET rejects: a URL axios cannot parse, a network failure or a
\* status axios rejects.
GetRejects(r) ==
    /\ pc[r] = "await"
    /\ remote[r].kind = "failure" \/ ~ParseBase(url[r]).ok
    /\ error' = [error EXCEPT ![r] = IF ParseBase(url[r]).ok THEN remote[r].message
                                                              ELSE "Invalid URL"]
    /\ pc' = [pc EXCEPT ![r] = "catch"]
    /\ UNCHANGED <<reqUrl, remote, url, gets, html, dom, title, responses>>
    /\ UNCHANGED <<browser, timers, frame>>

\* Lines 42-46.
LoadHtml(r) ==
    /\ pc[r] = "load"
    /\ dom' = [dom EXCEPT ![r] = Load(html[r])]
    /\ pc' = [pc EXCEPT ![r] = "base"]
    /\ UNCHANGED <<reqUrl, remote, url, gets, html, title, error, responses>>
    /\ UNCHANGED <<browser, timers, frame>>

\* Lines 48-56.
BaseTag(r) ==
    /\ pc[r] = "base"
    /\ dom' = [dom EXCEPT ![r] = FixBase(@, url[r])]
    /\ pc' = [pc EXCEPT ![r] = "urls"]
    /\ UNCHANGED <<reqUrl, remote, url, gets, html, title, error, responses>>
    /\ UNCHANGED <<browser, timers, frame>>

\* Lines 58-67; new URL throws on a value it cannot parse.
Absolutize(r) ==
    /\ pc[r] = "urls"
    /\ LET fixed == FixUrls(dom[r], urlAttributes,
                            ResolutionBase(url[r], BaseUrlOf(dom[r], url[r])))
       IN  IF fixed.ok
           THEN /\ dom' = [dom EXCEPT ![r] = fixed.nodes]
                /\ pc' = [pc EXCEPT ![r] = "text"]
                /\ UNCHANGED error
           ELSE /\ error' = [error EXCEPT ![r] = "Invalid URL"]
                /\ pc' = [pc EXCEPT ![r] = "catch"]
                /\ UNCHANGED dom
    /\ UNCHANGED <<reqUrl, remote, url, gets, html, title, responses>>
    /\ UNCHANGED <<browser, timers, frame>>

\* Lines 69-95.
ProcessAll(r) ==
    /\ pc[r] = "text"
    /\ dom' = [dom EXCEPT ![r] = ProcessEach(@, AllElements(@))]
    /\ pc' = [pc EXCEPT ![r] = "title"]
    /\ UNCHANGED <<reqUrl, remote, url, gets, html, title, error, responses>>
    /\ UNCHANGED <<browser, timers, frame>>

\* Lines 97-102.
ProcessTitle(r) ==
    /\ pc[r] = "title"
    /\ title' = [title EXCEPT ![r] = TitleOf(dom[r])]
    /\ dom' = [dom EXCEPT ![r] = SetText(@, ByName(@, "title"), TitleOf(@))]
    /\ pc' = [pc EXCEPT ![r] = "style"]
    /\ UNCHANGED <<reqUrl, remote, url, gets, html, error, responses>>
    /\ UNCHANGED <<browser, timers, frame>>

\* Lines 104-110.
InjectStyle(r) ==
    /\ pc[r] = "style"
    /\ dom' = [dom EXCEPT ![r] = AddStyle(@)]
    /\ pc' = [pc EXCEPT ![r] = "respond"]
    /\ UNCHANGED <<reqUrl, remote, url, gets, html, title, error, responses>>
    /\ UNCHANGED <<browser, timers, frame>>

\* A success body that leaves the title out.
SuccessBodyWithoutTitle(content, t, u) ==
    [success |-> TRUE, content |-> content, originalUrl |-> u]

\* Lines 112-117.
SuccessBody(content, t, u) ==
    [success |-> TRUE, content |-> content, title |-> t, originalUrl |-> u]

Respond(r) ==
    /\ pc[r] = "respond"
    /\ responses' = [responses EXCEPT
           ![r] = Append(@, Response(200, SuccessBody(ToTerm(dom[r], 1), title[r], url[r])))]
    /\ pc' = [pc EXCEPT ![r] = "done"]
    /\ UNCHANGED <<reqUrl, remote, url, gets, html, dom, title, error>>
    /\ UNCHANGED <<browser, timers, frame>>

\* A failure body that drops the error's message.
FailureBodyWithoutMessage(message) == [error |-> "Failed to fetch content"]

\* Lines 118-123.
FailureBody(message) == [error |-> "Failed to fetch content: " \o message]

Catch(r) ==
    /\ pc[r] = "catch"
    /\ responses' = [responses EXCEPT ![r] = Append(@, Response(500, FailureBody(error[r])))]
    /\ pc' = [pc EXCEPT ![r] = "done"]
    /\ UNCHANGED <<reqUrl, remote, url, gets, html, dom, title, error>>
    /\ UNCHANGED <<browser, timers, frame>>

-----------------------------------------------------------------------------
(* Requests and pages the model is run on *)

\* Texts are at most MaxPieces pieces long.
MaxPieces == 3

Pieces == {"Yale", "YALE", "yale", "YaLe", "Ya", "le", " x"}

RECURSIVE TextsOf(_)
TextsOf(n) ==
    IF n = 0 THEN {""}
    ELSE TextsOf(n - 1) \cup {t \o p : t \in TextsOf(n - 1), p \in Pieces}

Texts == TextsOf(MaxPieces)

ShortTexts == {"", "Ya", "le", "Yale", "x", "yALE"}

Page(headKids, bodyKids) ==
    Document(<<Tag("html", <<>>, <<Tag("head", <<>>, headKids), Tag("body", <<>>, bodyKids)>>)>>)

\* Pages that carry one text in every kind of place.
TextPages ==
    {Page(<<Tag("title", <<>>, <<Text(t)>>), Tag("style", <<>>, <<Text(t)>>)>>,
          <<Tag("p", <<>>, <<Text(t)>>), Tag("script", <<>>, <<Text(t)>>)>>) : t \in Texts}
    \cup
    {Page(<<>>,
          <<Text(t),
            Tag("div", <<Attr("alt", t)>>,
                <<Tag("p", <<>>, <<Text(t), Comment(t)>>), Text(t \o t)>>)>>) : t \in Texts}

\* Pages with up to two title elements (the second inside an inline svg) and
\* a text beside them.
TitlePages ==
    {Page(<<Tag("title", <<>>, IF t1 = "" THEN <<>> ELSE <<Text(t1)>>)>>,
          <<Tag("h1", <<>>, <<Text(t2)>>)>>) : t1 \in ShortTexts, t2 \in ShortTexts}
    \cup
    {Page(<<Tag("title", <<>>, <<Text(t1)>>)>>,
          <<Tag("svg", <<>>, <<Tag("title", <<>>, <<Text(t2)>>)>>)>>) :
        t1 \in ShortTexts \ {""}, t2 \in ShortTexts \ {""}}

AttrValues ==
    {"", "images/photo.jpg", "/about", "../x", "?q", "yale.png", "httpfoo",
     "http://yale.edu/", "https://b.co/Yale", "//cdn.co/i.jpg", "#section",
     "javascript:void(0)", "data:image/png;base64,ABC", "mailto:yale",
     "HTTP://YALE.edu", "JavaScript:x", "ftp://"}

BaseTags ==
    {<<>>,
     <<Tag("base", <<>>, <<>>)>>,
     <<Tag("base", <<Attr("href", "")>>, <<>>)>>,
     <<Tag("base", <<Attr("href", "https://b.co/s/")>>, <<>>)>>,
     <<Tag("base", <<Attr("href", "/s/")>>, <<>>)>>,
     <<Tag("base", <<Attr("target", "_blank")>>, <<>>),
       Tag("base", <<Attr("href", "https://b.co/s/")>>, <<>>)>>}

\* Pages that carry one value in each URL attribute, with each kind of base.
AttrPages ==
    {Page(b \o <<Tag("title", <<>>, <<Text("Yale links")>>)>>,
          <<Tag("img", <<Attr("src", v), Attr("alt", "Yale")>>, <<>>),
            Tag("a", <<Attr("class", v), Attr("href", v)>>, <<Text("yale")>>),
            Tag("form", <<Attr("action", v)>>, <<>>),
            Tag("div", <<Attr("data-src", v), Attr("src", "a.png")>>, <<>>),
            Tag("script", <<>>, <<Text("let yale = 'Yale'")>>)>>) :
        b \in BaseTags, v \in AttrValues}

\* Pages with two values side by side.
PairPages ==
    {Page(<<>>,
          <<Tag("img", <<Attr("src", v1)>>, <<>>),
            Tag("a", <<Attr("href", v2)>>, <<Text("Yale")>>)>>) :
        v1 \in AttrValues, v2 \in AttrValues}

\* Texts that read as markup once handed to a parser: in the page's source
\* their '<' and '>' are written &lt; and &gt;.
MarkupTexts ==
    {"<b>Yale</b>", "<b>YaLe</b>", "a <b>yale", "x < yale", "</b>Yale", "YALE<b",
     "a</>yale", "<i>no</i>"}

MarkupPages ==
    {Page(<<Tag("title", <<>>, <<Text(t1)>>)>>,
          <<Tag("p", <<>>, <<Text(t2), Tag("em", <<>>, <<Text("Yale")>>)>>)>>) :
        t1 \in {"T", "<b>Yale</b>"}, t2 \in MarkupTexts}

PlainPage == Page(<<Tag("title", <<>>, <<Text("Example")>>)>>, <<Text("Test")>>)

Served(page) == [kind |-> "page", page |-> page, message |-> ""]

Failing(message) == [kind |-> "failure", page |-> Document(<<>>), message |-> message]

Failures ==
    {Failing("connect ECONNREFUSED 127.0.0.1:443"),
     Failing("Request failed with status code 404")}

UrlPrefixes ==
    {"", "http://", "https://", "HTTP://", "HttpS://", "hTTp://", "http:/", "https:",
     "https//", "ftp://", "//", "xhttp://", " https://"}

UrlRests == {"", "a.co", "yale.edu/d/p"}

UrlValues ==
    {Undefined, Num(0), Num(5)} \cup {Str(p \o x) : p \in UrlPrefixes, x \in UrlRests}

PageUrls == {Str("https://a.co/d/p"), Str("a.co"), Str("HTTPS://a.co")}

\* The requests: [url, remote].
Requests ==
    {[url |-> u, remote |-> m] :
        u \in UrlValues, m \in Failures \cup {Served(PlainPage)}}
    \cup
    {[url |-> Str("yale.edu"), remote |-> Served(page)] :
        page \in TextPages \cup TitlePages \cup MarkupPages}
    \cup
    {[url |-> u, remote |-> Served(page)] : u \in PageUrls, page \in AttrPages}
    \cup
    {[url |-> Str("https://a.co/d/p"), remote |-> Served(page)] : page \in PairPages}

\* No page is rendered.
NoFrame ==
    /\ iframe = "none"
    /\ links = <<>>
    /\ images = <<>>
    /\ layout = [doc |-> 0, body |-> 0]
    /\ resizeObserver = "none"
    /\ heightAdjustmentCount = 0
    /\ iframeHeight = 0
    /\ adjustments = 0
    /\ finalTimer = NoTimer
    /\ disconnectTimer = NoTimer

\* The page with nothing submitted, and no debounced function in use.
BrowserIdle ==
    /\ urlInput = ""
    /\ loadingElement = TRUE
    /\ resultContainer = TRUE
    /\ errorMessage = [hidden |-> TRUE, textContent |-> ""]
    /\ originalUrlElement = [textContent |-> "", href |-> ""]
    /\ pageTitleElement = ""
    /\ contentDisplay = ""
    /\ fetched = <<>>
    /\ handler = [s \in Subs |-> Handler("unused", "", NoResponse)]

TimersIdle ==
    /\ wait = 0
    /\ now = 0
    /\ timeout = NoTimer
    /\ calls = <<>>
    /\ invoked = <<>>

\* One request, on r1; the other slot is unused.
Init ==
    /\ \E q \in Requests :
          /\ reqUrl = [r \in Reqs |-> IF r = "r1" THEN q.url ELSE Undefined]
          /\ remote = [r \in Reqs |-> IF r = "r1" THEN q.remote ELSE Failing("")]
    /\ pc = [r \in Reqs |-> IF r = "r1" THEN "validate" ELSE "unused"]
    /\ url = [r \in Reqs |-> ""]
    /\ gets = [r \in Reqs |-> <<>>]
    /\ html = [r \in Reqs |-> Document(<<>>)]
    /\ dom = [r \in Reqs |-> NoDom]
    /\ title = [r \in Reqs |-> ""]
    /\ error = [r \in Reqs |-> ""]
    /\ responses = [r \in Reqs |-> <<>>]
    /\ BrowserIdle
    /\ TimersIdle
    /\ NoFrame

Next ==
    \E r \in Reqs :
        \/ Validate(r)
        \/ Normalize(r)
        \/ IssueGet(r)
        \/ GetResolves(r)
        \/ GetRejects(r)
        \/ LoadHtml(r)
        \/ BaseTag(r)
        \/ Absolutize(r)
        \/ ProcessAll(r)
        \/ ProcessTitle(r)
        \/ InjectStyle(r)
        \/ Respond(r)
        \/ Catch(r)

Spec == Init /\ [][Next]_vars

\* Two requests in flight at once: Node runs one handler until its await, so
\* the steps of the two handlers interleave in any order.
ConcurrentRequests ==
    {[url |-> Undefined, remote |-> Served(PlainPage)],
     [url |-> Num(5), remote |-> Served(PlainPage)],
     [url |-> Str("a.co"), remote |-> Failing("connect ECONNREFUSED 127.0.0.1:443")],
     [url |-> Str("yale.edu"), remote |-> Served(PlainPage)],
     [url |-> Str("https://a.co/d/p"),
      remote |-> Served(Page(<<Tag("title", <<>>, <<Text("Yale")>>)>>,
                             <<Tag("a", <<Attr("href", "/about")>>, <<Text("yale")>>)>>))],
     [url |-> Str("https://a.co/d/p"),
      remote |-> Served(Page(<<>>, <<Tag("img", <<Attr("src", "ftp://")>>, <<>>)>>))]}

InitConcurrent ==
    /\ \E q1 \in ConcurrentRequests, q2 \in ConcurrentRequests :
          /\ reqUrl = [r \in Reqs |-> IF r = "r1" THEN q1.url ELSE q2.url]
          /\ remote = [r \in Reqs |-> IF r = "r1" THEN q1.remote ELSE q2.remote]
    /\ pc = [r \in Reqs |-> "validate"]
    /\ url = [r \in Reqs |-> ""]
    /\ gets = [r \in Reqs |-> <<>>]
    /\ html = [r \in Reqs |-> Document(<<>>)]
    /\ dom = [r \in Reqs |-> NoDom]
    /\ title = [r \in Reqs |-> ""]
    /\ error = [r \in Reqs |-> ""]
    /\ responses = [r \in Reqs |-> <<>>]
    /\ BrowserIdle
    /\ TimersIdle
    /\ NoFrame

SpecConcurrent == InitConcurrent /\ [][Next]_vars

\* The positions of a handler.
Positions ==
    {"validate", "normalize", "get", "await", "load", "base", "urls", "text", "title",
     "style", "respond", "catch", "done"}

\* The handler of r leaves one of the positions `from`.
Moves(r, from) ==
    /\ pc[r] \in from
    /\ \E at \in Positions \ {pc[r]} : pc' = [pc EXCEPT ![r] = at]

\* A handler that is not waiting for its GET runs on, since Node runs it to
\* its next await or to its end; and every outbound GET completes, with a
\* body or with a failure.
Fairness ==
    \A r \in Reqs :
        /\ WF_pc(Moves(r, Positions \ {"await", "done"}))
        /\ WF_pc(Moves(r, {"await"}))

SpecLive == InitConcurrent /\ [][Next]_vars /\ Fairness

\* No request reaches the server.
ServerUnused ==
    /\ pc = [r \in Reqs |-> "unused"]
    /\ reqUrl = [r \in Reqs |-> Undefined]
    /\ remote = [r \in Reqs |-> Failing("")]
    /\ url = [r \in Reqs |-> ""]
    /\ gets = [r \in Reqs |-> <<>>]
    /\ html = [r \in Reqs |-> Document(<<>>)]
    /\ dom = [r \in Reqs |-> NoDom]
    /\ title = [r \in Reqs |-> ""]
    /\ error = [r \in Reqs |-> ""]
    /\ responses = [r \in Reqs |-> <<>>]

-----------------------------------------------------------------------------
(* debounce(func, wait), lines 131-138 of app.js: one debounced function,   *)
(* its callers and the clock.                                              *)

\* The debounced function is called at most MaxCalls times, and the clock
\* stops at MaxTime.
MaxCalls == 3

MaxTime == 5

Waits == {1, 2}

ArgsOfCall == {"a", "b"}

\* Lines 133-136, the returned function called with args: the pending timer
\* is cleared and a new one is set, due in `wait` ms.
CallDebounced(args) ==
    /\ Len(calls) < MaxCalls
    /\ calls' = Append(calls, [at |-> now, args |-> args])
    /\ timeout' = [armed |-> TRUE, due |-> now + wait, args |-> args, call |-> Len(calls) + 1]
    /\ UNCHANGED <<wait, now, invoked, server, browser, frame>>

\* A timer that runs whenever it pleases.
TimerFiresEarly ==
    /\ timeout.armed
    /\ invoked' = Append(invoked, [at |-> now, args |-> timeout.args, call |-> timeout.call])
    /\ timeout' = [timeout EXCEPT !.armed = FALSE]
    /\ UNCHANGED <<wait, now, calls, server, browser, frame>>

\* Line 135, the timer's callback: func.apply(this, args).  A timer runs once
\* `wait` ms have passed since it was set, then or later.
TimerFires ==
    /\ timeout.armed
    /\ now >= timeout.due
    /\ invoked' = Append(invoked, [at |-> now, args |-> timeout.args, call |-> timeout.call])
    /\ timeout' = [timeout EXCEPT !.armed = FALSE]
    /\ UNCHANGED <<wait, now, calls, server, browser, frame>>

\* A millisecond passes.
Tick ==
    /\ now < MaxTime
    /\ now' = now + 1
    /\ UNCHANGED <<wait, timeout, calls, invoked, server, browser, frame>>

InitDebounce ==
    /\ wait \in Waits
    /\ now = 0
    /\ timeout = NoTimer
    /\ calls = <<>>
    /\ invoked = <<>>
    /\ ServerUnused
    /\ BrowserIdle
    /\ NoFrame

NextDebounce ==
    \/ \E args \in ArgsOfCall : CallDebounced(args)
    \/ TimerFires
    \/ Tick

SpecDebounce == InitDebounce /\ [][NextDebounce]_vars

-----------------------------------------------------------------------------
(* The submit handler of the page script, lines 150-315 of app.js *)

\* String.prototype.trim, for strings whose only white space is the space.
RECURSIVE TrimStart(_)
TrimStart(s) == IF StartsWith(s, " ") THEN TrimStart(Drop(s, 1)) ELSE s

RECURSIVE TrimEnd(_)
TrimEnd(s) ==
    IF s # "" /\ Drop(s, Len(s) - 1) = " " THEN TrimEnd(Take(s, Len(s) - 1)) ELSE s

Trim(s) == TrimEnd(TrimStart(s))

\* A check that lets every input through.
HasDotOrNot(u) == TRUE

\* Line 161: url.includes('.')
HasDot(u) == Includes(u, ".")

\* A correction that prepends http://.
WithHttp(u) == IF ~MatchesScheme(u) THEN "http://" \o u ELSE u

\* Lines 167-170: the local `url` after the correction.
WithHttps(u) == IF ~MatchesScheme(u) THEN "https://" \o u ELSE u

\* Lines 317-320.
showError(message) == [hidden |-> FALSE, textContent |-> message]

\* a || b on strings
OrElse(a, b) == IF a # "" THEN a ELSE b

\* DOMPurify.sanitize(content, ...): what the library makes of the content.
Sanitized(content) == "sanitized:" \o content

\* The user edits the input field.
TypeUrl(v) ==
    /\ \E s \in Subs : handler[s].pc = "idle"
    /\ urlInput # v
    /\ urlInput' = v
    /\ UNCHANGED <<loadingElement, resultContainer, errorMessage, originalUrlElement,
                   pageTitleElement, contentDisplay, fetched, handler>>
    /\ UNCHANGED <<server, timers, frame>>

\* Lines 151-184: the handler runs up to its first await.
Submit(s) ==
    /\ handler[s].pc = "idle"
    /\ LET trimmed == Trim(urlInput)
       IN  IF trimmed = ""
           THEN /\ errorMessage' = showError("Please enter a valid URL")
                /\ handler' = [handler EXCEPT ![s] = Handler("done", trimmed, NoResponse)]
                /\ UNCHANGED <<urlInput, loadingElement, resultContainer, fetched>>
           ELSE IF ~HasDot(trimmed)
           THEN /\ errorMessage' = showError("Please enter a valid domain name")
                /\ handler' = [handler EXCEPT ![s] = Handler("done", trimmed, NoResponse)]
                /\ UNCHANGED <<urlInput, loadingElement, resultContainer, fetched>>
           ELSE /\ urlInput' = IF ~MatchesScheme(trimmed) THEN WithHttps(trimmed) ELSE urlInput
                /\ loadingElement' = FALSE
                /\ resultContainer' = TRUE
                /\ errorMessage' = [errorMessage EXCEPT !.hidden = TRUE]
                /\ fetched' = Append(fetched, [url |-> WithHttps(trimmed)])
                /\ handler' = [handler EXCEPT
                       ![s] = Handler("awaitFetch", WithHttps(trimmed), NoResponse)]
    /\ UNCHANGED <<originalUrlElement, pageTitleElement, contentDisplay>>
    /\ UNCHANGED <<server, timers, frame>>

\* Lines 309-314: catch (error) { showError(error.message) } finally { ... }
Caught(s, message) ==
    /\ errorMessage' = showError(message)
    /\ loadingElement' = TRUE
    /\ handler' = [handler EXCEPT ![s].pc = "done"]
    /\ UNCHANGED <<urlInput, resultContainer, originalUrlElement, pageTitleElement,
                   contentDisplay, fetched>>

\* Line 178: the fetch settles.
FetchSettles(s, outcome) ==
    /\ handler[s].pc = "awaitFetch"
    /\ IF outcome.kind = "rejected"
       THEN Caught(s, outcome.message)
       ELSE /\ handler' = [handler EXCEPT ![s].pc = "awaitJson", ![s].response = outcome]
            /\ UNCHANGED <<urlInput, loadingElement, resultContainer, errorMessage,
                           originalUrlElement, pageTitleElement, contentDisplay, fetched>>
    /\ UNCHANGED <<server, timers, frame>>

\* Lines 186-314: response.json() settles and the handler runs to its end.
JsonSettles(s) ==
    /\ handler[s].pc = "awaitJson"
    /\ LET response == handler[s].response
           data == response.data
       IN  IF ~response.json THEN Caught(s, response.message) /\ UNCHANGED iframe
           ELSE IF ~response.ok
           THEN Caught(s, OrElse(data.error, "Failed to fetch content")) /\ UNCHANGED iframe
           ELSE /\ originalUrlElement' = [textContent |-> handler[s].url, href |-> handler[s].url]
                /\ pageTitleElement' = OrElse(data.title, "No title")
                /\ contentDisplay' = Sanitized(data.content)
                /\ iframe' = "written"
                /\ resultContainer' = FALSE
                /\ loadingElement' = TRUE
                /\ handler' = [handler EXCEPT ![s].pc = "done"]
                /\ UNCHANGED <<urlInput, errorMessage, fetched>>
    /\ UNCHANGED <<links, images, layout, resizeObserver, heightAdjustmentCount, iframeHeight,
                   adjustments, finalTimer, disconnectTimer>>
    /\ UNCHANGED <<server, timers>>

InputValues ==
    {"", "  ", "invalidurl", "example.com", " example.com ", "http://a.co", "HTTPS://A.co",
     "https://yale.edu/x", "ftp://a.co", "http://localhost", "https://", ".", "//a.co",
     "xhttp://a.co", "http:/a.co"}

FetchOutcomes ==
    {Rejection("Failed to fetch"),
     NotJson(FALSE, "Unexpected token < in JSON at position 0"),
     Json(FALSE, [error |-> "URL is required", title |-> "", content |-> ""]),
     Json(FALSE, [error |-> "", title |-> "", content |-> ""]),
     Json(TRUE, [error |-> "", title |-> "Fale", content |-> "<p>Fale</p>"]),
     Json(TRUE, [error |-> "", title |-> "", content |-> "<p>x</p>"])}

\* The page as a visit finds it, with something in the input field; the
\* second submission comes when the user pleases.
InitBrowser ==
    /\ urlInput \in InputValues
    /\ loadingElement = TRUE
    /\ resultContainer \in BOOLEAN
    /\ errorMessage \in {[hidden |-> h, textContent |-> ""] : h \in BOOLEAN}
    /\ originalUrlElement = [textContent |-> "", href |-> ""]
    /\ pageTitleElement = ""
    /\ contentDisplay = ""
    /\ fetched = <<>>
    /\ handler = [s \in Subs |-> Handler("idle", "", NoResponse)]
    /\ ServerUnused
    /\ TimersIdle
    /\ NoFrame

NextBrowser ==
    \/ \E v \in InputValues : TypeUrl(v)
    \/ \E s \in Subs :
          \/ Submit(s)
          \/ \E outcome \in FetchOutcomes : FetchSettles(s, outcome)
          \/ JsonSettles(s)

SpecBrowser == InitBrowser /\ [][NextBrowser]_vars

-----------------------------------------------------------------------------
(* The rendered iframe, lines 226-305 of app.js: its onload handler, the   *)
(* height adjustment and the timers, for one rendered page.                *)

MAX_HEIGHT_ADJUSTMENTS == 10

MAX_IFRAME_HEIGHT == 10000

\* The wait of debounce(adjustIframeHeight, 200) and the delays of the two
\* timers of the onload handler, in ms.
AdjustWait == 200

FinalDelay == 2000

DisconnectDelay == 10000

\* The height taken when both scroll heights are 0.
DefaultHeight == 800

\* The clock of a rendered page stops at MaxFrameTime.
MaxFrameTime == 10000

Min(a, b) == IF a <= b THEN a ELSE b

\* A timer set now, to run in `delay` ms.
TimerIn(delay) == [armed |-> TRUE, due |-> now + delay, args |-> "", call |-> 0]

\* The timer may run: its delay has passed.
Ready(timer) == timer.armed /\ now >= timer.due

\* An a element and an img element.  An a element of an inline svg is an
\* SVGAElement, which querySelectorAll('a') selects as well.
Link(kind, target, rel) == [kind |-> kind, target |-> target, rel |-> rel]

Img(complete, listeners) == [complete |-> complete, listeners |-> listeners]

\* Lines 264-265: link.target = '_blank'; link.rel = 'noopener noreferrer'.
\* The target of an SVGAElement is a read-only SVGAnimatedString, and the
\* assignment to it does nothing.
OpenedInNewTab(link) ==
    [link EXCEPT !.target = IF link.kind = "html" THEN "_blank" ELSE @,
                 !.rel = "noopener noreferrer"]

\* Lines 271-276: the listeners after the onload handler has seen the image.
Listening(img) ==
    IF img.complete THEN img ELSE [img EXCEPT !.listeners = @ \cup {"load", "error"}]

\* A height that is not capped.
HeightUncapped(l) == IF l.doc # 0 THEN l.doc ELSE IF l.body # 0 THEN l.body ELSE DefaultHeight

\* Lines 242-246: scrollHeight of documentElement || of body || 800, capped.
Height(l) ==
    Min(IF l.doc # 0 THEN l.doc ELSE IF l.body # 0 THEN l.body ELSE DefaultHeight,
        MAX_IFRAME_HEIGHT)

\* Lines 232-253, adjustIframeHeight(): nothing once the counter has reached
\* the maximum, else the counter is incremented and the height is set.
\* `count` is the counter after the call.
adjustIframeHeight(count) ==
    IF heightAdjustmentCount >= MAX_HEIGHT_ADJUSTMENTS
    THEN /\ count = heightAdjustmentCount
         /\ UNCHANGED <<iframeHeight, adjustments>>
    ELSE /\ count = heightAdjustmentCount + 1
         /\ iframeHeight' = Height(layout)
         /\ adjustments' = adjustments + 1

\* Line 256, debouncedAdjustHeight(): the pending timer is cleared and a new
\* one is set (lines 135-136).
debouncedAdjustHeight == timeout' = TimerIn(wait)

\* Lines 259-305, iframe.onload.
Onload ==
    /\ iframe = "written"
    /\ iframe' = "loaded"
    /\ links' = [k \in DOMAIN links |-> OpenedInNewTab(links[k])]
    /\ images' = [k \in DOMAIN images |-> Listening(images[k])]
    /\ IF \E k \in DOMAIN images : images[k].complete
       THEN debouncedAdjustHeight
       ELSE UNCHANGED timeout
    /\ IF resizeObserver = "none"
       THEN UNCHANGED <<resizeObserver, disconnectTimer>>
       ELSE /\ resizeObserver' = "observing"
            /\ disconnectTimer' = TimerIn(DisconnectDelay)
    /\ \E count \in 0..MAX_HEIGHT_ADJUSTMENTS :
          /\ adjustIframeHeight(count)
          /\ heightAdjustmentCount' = count
    /\ finalTimer' = TimerIn(FinalDelay)
    /\ UNCHANGED <<layout, wait, now, calls, invoked, server, browser>>

\* An image that was not complete loads or fails; its listeners run.
ImageSettles(k, event) ==
    /\ iframe # "none"
    /\ ~images[k].complete
    /\ images' = [images EXCEPT ![k].complete = TRUE]
    /\ IF event \in images[k].listeners THEN debouncedAdjustHeight ELSE UNCHANGED timeout
    /\ UNCHANGED <<iframe, links, layout, resizeObserver, heightAdjustmentCount, iframeHeight,
                   adjustments, finalTimer, disconnectTimer>>
    /\ UNCHANGED <<wait, now, calls, invoked, server, browser>>

\* The rendered document is laid out anew: its scroll heights change.
Reflow(l) ==
    /\ iframe # "none"
    /\ layout # l
    /\ layout' = l
    /\ UNCHANGED <<iframe, links, images, resizeObserver, heightAdjustmentCount, iframeHeight,
                   adjustments, finalTimer, disconnectTimer>>
    /\ UNCHANGED <<timers, server, browser>>

\* Lines 281-283: the resize observer's callback runs.
ObserverFires ==
    /\ resizeObserver = "observing"
    /\ debouncedAdjustHeight
    /\ UNCHANGED <<wait, now, calls, invoked, frame, server, browser>>

\* The debounced function's timer runs adjustIframeHeight (line 136).
AdjustTimerFires ==
    /\ iframe = "loaded"
    /\ Ready(timeout)
    /\ timeout' = NoTimer
    /\ \E count \in 0..MAX_HEIGHT_ADJUSTMENTS :
          /\ adjustIframeHeight(count)
          /\ heightAdjustmentCount' = count
    /\ UNCHANGED <<iframe, links, images, layout, resizeObserver, finalTimer, disconnectTimer>>
    /\ UNCHANGED <<wait, now, calls, invoked, server, browser>>

\* Lines 297-301: the final adjustment, and the counter is reset.
FinalTimerFires ==
    /\ Ready(finalTimer)
    /\ finalTimer' = NoTimer
    /\ \E count \in 0..MAX_HEIGHT_ADJUSTMENTS : adjustIframeHeight(count)
    /\ heightAdjustmentCount' = 0
    /\ UNCHANGED <<iframe, links, images, layout, resizeObserver, disconnectTimer>>
    /\ UNCHANGED <<timers, server, browser>>

\* Lines 287-290: resizeObserver.disconnect().
DisconnectTimerFires ==
    /\ Ready(disconnectTimer)
    /\ disconnectTimer' = NoTimer
    /\ resizeObserver' = "disconnected"
    /\ UNCHANGED <<iframe, links, images, layout, heightAdjustmentCount, iframeHeight,
                   adjustments, finalTimer>>
    /\ UNCHANGED <<timers, server, browser>>

\* Time passes, `wait` ms at a time; a timer runs in the step in which it
\* falls due, after or before the other events of that step.
FrameTick ==
    /\ iframe = "loaded"
    /\ now < MaxFrameTime
    /\ ~Ready(timeout) /\ ~Ready(finalTimer) /\ ~Ready(disconnectTimer)
    /\ now' = now + wait
    /\ UNCHANGED <<wait, timeout, calls, invoked, frame, server, browser>>

\* The documents rendered: HTML and svg links with and without a target,
\* images complete or not, and the scroll heights.
RenderedLinks ==
    {<<Link("html", "", ""), Link("html", "_self", "nofollow"), Link("svg", "", "")>>}

RenderedImages == {<<Img(TRUE, {}), Img(FALSE, {})>>, <<Img(FALSE, {})>>}

Layouts == {[doc |-> 0, body |-> 0], [doc |-> 0, body |-> 500], [doc |-> 20000, body |-> 20000]}

\* One submission has succeeded and its page is written into the iframe.
BrowserRendered ==
    /\ urlInput = "https://example.com"
    /\ loadingElement = TRUE
    /\ resultContainer = FALSE
    /\ errorMessage = [hidden |-> TRUE, textContent |-> ""]
    /\ originalUrlElement = [textContent |-> "https://example.com", href |-> "https://example.com"]
    /\ pageTitleElement = "Fale"
    /\ contentDisplay = Sanitized("<p>Fale</p>")
    /\ fetched = <<[url |-> "https://example.com"]>>
    /\ handler = [s \in Subs |->
          IF s = "s1"
          THEN Handler("done", "https://example.com",
                       Json(TRUE, [error |-> "", title |-> "Fale", content |-> "<p>Fale</p>"]))
          ELSE Handler("idle", "", NoResponse)]

\* The state the submit handler leaves at line 305; the browser has a
\* ResizeObserver or has none.
InitFrame ==
    /\ iframe = "written"
    /\ links \in RenderedLinks
    /\ images \in RenderedImages
    /\ layout \in Layouts
    /\ resizeObserver \in {"none", "idle"}
    /\ heightAdjustmentCount = 0
    /\ iframeHeight = 0
    /\ adjustments = 0
    /\ finalTimer = NoTimer
    /\ disconnectTimer = NoTimer
    /\ wait = AdjustWait
    /\ now = 0
    /\ timeout = NoTimer
    /\ calls = <<>>
    /\ invoked = <<>>
    /\ BrowserRendered
    /\ ServerUnused

NextFrame ==
    \/ Onload
    \/ \E k \in 1..2, event \in {"load", "error"} : k \in DOMAIN images /\ ImageSettles(k, event)
    \/ \E l \in Layouts : Reflow(l)
    \/ ObserverFires
    \/ AdjustTimerFires
    \/ FinalTimerFires
    \/ DisconnectTimerFires
    \/ FrameTick

SpecFrame == InitFrame /\ [][NextFrame]_vars

-----------------------------------------------------------------------------
(* Reading a request's outcome *)

\* r has been answered, once, with this status.
Answered(r, status) ==
    /\ pc[r] = "done"
    /\ Len(responses[r]) = 1
    /\ responses[r][1].status = status

Body(r) == responses[r][1].body

\* The fetched page as parsed, before any rewriting; the rewritten document
\* keeps these identities.
Input(r) == Load(html[r])

Output(r) == dom[r]

TextIds(nodes) == {id \in 1..Len(nodes) : nodes[id].type = "text"}

ElementIds(nodes) == {id \in 1..Len(nodes) : nodes[id].type = "tag"}

\* The text node lies inside a script or style element.
RECURSIVE InsideScriptOrStyle(_, _)
InsideScriptOrStyle(nodes, id) ==
    IF id = 1 THEN FALSE
    ELSE \/ nodes[ParentOf(nodes, id)].name \in {"script", "style"}
         \/ InsideScriptOrStyle(nodes, ParentOf(nodes, id))

\* The children of element p in the output `out` that are no injected base or
\* style block: injected nodes are new children of head.
KeptChildren(in, out, p) ==
    LET Old(id) == id <= Len(in)
    IN  IF out[p].name = "head" THEN SelectSeq(out[p].children, Old) ELSE out[p].children

\* The output has a text node where the input's text node id was.
HasOutputText(in, out, id) ==
    LET p == ParentOf(in, id)
        k == IndexIn(in, id, p)
        kept == KeptChildren(in, out, p)
    IN  /\ k <= Len(kept)
        /\ out[kept[k]].type = "text"

\* ... and this is its text.
OutputText(in, out, id) ==
    LET p == ParentOf(in, id)
    IN  out[KeptChildren(in, out, p)[IndexIn(in, id, p)]].data

YaleWords == {<<"Yale", "Fale">>, <<"YALE", "FALE">>, <<"yale", "fale">>}

HasYale(text) == \E w \in YaleWords : Includes(text, w[1])

\* s begins with p, letter case aside.
BeginsIgnoringCase(s, p) ==
    /\ Len(s) >= Len(p)
    /\ \A i \in 1..Len(p) : LowerChar(Char(s, i)) = Char(p, i)

\* The value begins with one of the prefixes that mark a URL as not relative.
HasKeptPrefix(v) == \E p \in {"http", "//", "#", "javascript:", "data:"} : StartsWith(v, p)

UrlAttributeNames == {"src", "href", "action", "data-src"}

-----------------------------------------------------------------------------
(* The claims *)

\* C1: a request whose body has no url, or an empty url, is answered with
\* status 400 and the body exactly {error: 'URL is required'}, and no outbound
\* GET is ever issued for it.
C1_MissingUrlIs400 ==
    \A r \in Reqs :
        (pc[r] # "unused" /\ reqUrl[r] \in {Undefined, Str("")}) =>
            /\ gets[r] = <<>>
            /\ pc[r] \in {"validate", "done"}
            /\ pc[r] = "validate" => responses[r] = <<>>
            /\ pc[r] = "done" =>
                  responses[r] = <<Response(400, [error |-> "URL is required"])>>

C1_Witness ==
    \E r \in Reqs :
        /\ reqUrl[r] = Str("")
        /\ Answered(r, 400)
        /\ Body(r) = [error |-> "URL is required"]
        /\ gets[r] = <<>>

\* The normalized form of a url string, as the claim words it.
C2_Expected(s) ==
    IF BeginsIgnoringCase(s, "http://") \/ BeginsIgnoringCase(s, "https://")
    THEN s ELSE "https://" \o s

\* C2: for a url string, the URL fetched and the originalUrl returned are both
\* 'https://' + the string when the string does not begin with http:// or
\* https:// (letter case aside), and the string itself otherwise; the GET's
\* target and originalUrl are the same value.
C2_NormalizedUrl ==
    \A r \in Reqs :
        reqUrl[r].kind = "string" =>
            /\ \A i \in 1..Len(gets[r]) : gets[r][i] = C2_Expected(reqUrl[r].str)
            /\ \A i \in 1..Len(responses[r]) :
                  responses[r][i].status = 200 =>
                      /\ responses[r][i].body.originalUrl = C2_Expected(reqUrl[r].str)
                      /\ gets[r] = <<responses[r][i].body.originalUrl>>
            /\ pc[r] \in {"await", "load", "respond"} => Len(gets[r]) = 1

C2_Witness ==
    \E r \in Reqs :
        /\ reqUrl[r] = Str("a.co")
        /\ Answered(r, 200)
        /\ Body(r).originalUrl = "https://a.co"
        /\ gets[r] = <<"https://a.co">>

\* Some URL attribute of the page holds a value that new URL cannot resolve
\* against base.
C3_HasUnresolvable(in, base) ==
    \E id \in ElementIds(in) : \E k \in 1..Len(in[id].attribs) :
        /\ in[id].attribs[k].name \in UrlAttributeNames
        /\ in[id].attribs[k].value # ""
        /\ ~HasKeptPrefix(in[id].attribs[k].value)
        /\ ~Resolve(in[id].attribs[k].value, base).ok

\* The page is fetched and the rewrite raises on it.
C3_RewriteRaises(r) ==
    /\ remote[r].kind = "page"
    /\ reqUrl[r].kind = "string"
    /\ ParseBase(url[r]).ok
    /\ C3_HasUnresolvable(Load(remote[r].page), url[r])

\* C3: when the outbound fetch fails, or a step of the rewrite raises, the
\* request is answered with status 500 and the body {error: 'Failed to fetch
\* content: ' + the error's message}.
C3_FailureIs500 ==
    \A r \in Reqs :
        pc[r] = "done" =>
            /\ (gets[r] # <<>> /\ remote[r].kind = "failure" /\ ParseBase(url[r]).ok) =>
                  responses[r] = <<Response(500,
                      [error |-> "Failed to fetch content: " \o remote[r].message])>>
            /\ C3_RewriteRaises(r) =>
                  responses[r] = <<Response(500,
                      [error |-> "Failed to fetch content: Invalid URL"])>>

C3_Witness ==
    \E r \in Reqs :
        /\ Answered(r, 500)
        /\ remote[r].kind = "failure"
        /\ gets[r] # <<>>
        /\ Body(r) = [error |-> "Failed to fetch content: Request failed with status code 404"]

\* C4: a request gets at most one response, exactly one once the handler has
\* returned, and each response is either a 200 with exactly success = true,
\* content, title and originalUrl, or a 400 or 500 with error alone.
C4_OneShapedResponse ==
    \A r \in Reqs :
        /\ Len(responses[r]) <= 1
        /\ pc[r] = "done" <=> Len(responses[r]) = 1
        /\ \A i \in 1..Len(responses[r]) :
              \/ /\ responses[r][i].status = 200
                 /\ DOMAIN responses[r][i].body = {"success", "content", "title", "originalUrl"}
                 /\ responses[r][i].body.success = TRUE
              \/ /\ responses[r][i].status \in {400, 500}
                 /\ DOMAIN responses[r][i].body = {"error"}

C4_Witness ==
    \E r \in Reqs :
        /\ Answered(r, 200)
        /\ DOMAIN Body(r) = {"success", "content", "title", "originalUrl"}
        /\ Body(r).content = ToTerm(dom[r], 1)

\* The text keeps its length, has the new word wherever it had the old one,
\* and holds none of the three old words.
C5_Substituted(old, new) ==
    /\ Len(new) = Len(old)
    /\ \A w \in YaleWords : \A i \in 1..Len(old) :
          OccursAt(old, w[1], i) => OccursAt(new, w[2], i)
    /\ ~HasYale(new)

C5_Holds(in, out) ==
    \A id \in TextIds(in) :
        ~InsideScriptOrStyle(in, id) =>
            /\ HasOutputText(in, out, id)
            /\ C5_Substituted(in[id].data, OutputText(in, out, id))

\* C5: in the output, every text node outside script and style elements has
\* Fale, FALE, fale at exactly the positions where the input had Yale, YALE,
\* yale, and holds none of Yale, YALE, yale.
C5_TextIsSubstituted ==
    \A r \in Reqs : Answered(r, 200) => C5_Holds(Input(r), Output(r))

C6_Holds(in, out, base) ==
    /\ \A id \in TextIds(in) :
          InsideScriptOrStyle(in, id) =>
              /\ HasOutputText(in, out, id)
              /\ OutputText(in, out, id) = in[id].data
    /\ \A id \in ElementIds(in) :
          /\ Len(out[id].attribs) = Len(in[id].attribs)
          /\ \A k \in 1..Len(in[id].attribs) :
                /\ out[id].attribs[k].name = in[id].attribs[k].name
                /\ \/ out[id].attribs[k].value = in[id].attribs[k].value
                   \/ /\ in[id].attribs[k].name \in UrlAttributeNames
                      /\ out[id].attribs[k].value = Resolve(in[id].attribs[k].value, base).href
                /\ HasYale(in[id].attribs[k].value) =>
                      Includes(ToLowerCase(out[id].attribs[k].value), "yale")

\* C6: the substitution reaches no script or style text and no attribute
\* value: in the output every script and style element holds the text it held,
\* every element has its attributes with the values they had, but for URL
\* attributes made absolute, and a value that held yale still holds it.
C6_ScriptStyleAttributesKept ==
    \A r \in Reqs :
        Answered(r, 200) =>
            /\ C6_Holds(Input(r), Output(r), Body(r).originalUrl)
            /\ Body(r).content = ToTerm(Output(r), 1)

C6_Reached(in, out) ==
    /\ \E id \in TextIds(in) :
          /\ in[ParentOf(in, id)].name = "script"
          /\ out[id].data = "let yale = 'Yale'"
    /\ \E id \in ElementIds(in) :
          /\ out[id].name = "a"
          /\ AttrValue(in[id], "href") = "yale.png"
          /\ AttrValue(out[id], "href") = "https://a.co/d/yale.png"
          /\ TextContent(out, id) = "fale"
    /\ \E id \in ElementIds(in) :
          /\ out[id].name = "img"
          /\ AttrValue(out[id], "alt") = "Yale"

C6_Witness == \E r \in Reqs : Answered(r, 200) /\ C6_Reached(Input(r), Output(r))

C7_Holds(in, out) ==
    \A id \in TextIds(in) :
        ~HasYale(in[id].data) =>
            /\ HasOutputText(in, out, id)
            /\ OutputText(in, out, id) = in[id].data

\* C7: a text node that holds none of the exact words Yale, YALE, yale (one
\* holding only YaLe or yALE, say) comes out of the rewrite unchanged.
C7_OtherTextUnchanged ==
    \A r \in Reqs : Answered(r, 200) => C7_Holds(Input(r), Output(r))

C8_Holds(in, out, t) ==
    IF ByName(in, "title") = <<>> THEN t = ""
    ELSE /\ t = YaleToFale(TextContent(in, Head(ByName(in, "title"))))
         /\ TextContent(out, Head(ByName(in, "title"))) = t

\* C8: the title field of a 200 response is the text of the input document's
\* title element with the three substitutions applied, and the title element
\* of the returned content has exactly that text.
C8_TitleIsSubstitutedTitle ==
    \A r \in Reqs : Answered(r, 200) => C8_Holds(Input(r), Output(r), Body(r).title)

\* The value `old` of a URL attribute comes out resolved against base.
C9_Resolved(old, new, base) ==
    /\ Resolve(old, base).ok
    /\ new = Resolve(old, base).href

C9_HoldsForAll(in, out, base) ==
    \A id \in ElementIds(in) : \A k \in 1..Len(in[id].attribs) :
        (in[id].attribs[k].name \in UrlAttributeNames /\ ~HasKeptPrefix(in[id].attribs[k].value))
        => C9_Resolved(in[id].attribs[k].value, out[id].attribs[k].value, base)

\* C9 as claimed: every src, href, action or data-src value, of any length,
\* that does not start with http, //, #, javascript: or data: comes out
\* resolved against the request's normalized URL.
C9_EveryValueResolved ==
    \A r \in Reqs :
        Answered(r, 200) => C9_HoldsForAll(Input(r), Output(r), Body(r).originalUrl)

C9_HoldsForNonEmpty(in, out, base) ==
    \A id \in ElementIds(in) : \A k \in 1..Len(in[id].attribs) :
        (in[id].attribs[k].name \in UrlAttributeNames /\ ~HasKeptPrefix(in[id].attribs[k].value))
        => IF in[id].attribs[k].value = "" THEN out[id].attribs[k].value = ""
           ELSE C9_Resolved(in[id].attribs[k].value, out[id].attribs[k].value, base)

\* C9 amended: every non-empty src, href, action or data-src value that does
\* not start with http, //, #, javascript: or data: comes out resolved by
\* standard URL resolution against the request's normalized URL, never
\* against a base href of the document; an empty value stays empty.
C9_NonEmptyValueResolved ==
    \A r \in Reqs :
        Answered(r, 200) => C9_HoldsForNonEmpty(Input(r), Output(r), Body(r).originalUrl)

C9_Reached(in, out) ==
    /\ \E b \in ElementIds(in) :
          /\ in[b].name = "base"
          /\ in[b].attribs = <<Attr("href", "https://b.co/s/")>>
    /\ \E id \in ElementIds(in) :
          /\ in[id].name = "img"
          /\ AttrValue(in[id], "src") = "images/photo.jpg"
          /\ AttrValue(out[id], "src") = "https://a.co/d/images/photo.jpg"

C9_Witness ==
    \E r \in Reqs :
        /\ Answered(r, 200)
        /\ Body(r).originalUrl = "https://a.co/d/p"
        /\ C9_Reached(Input(r), Output(r))

C10_Holds(in, out) ==
    \A id \in ElementIds(in) : \A k \in 1..Len(in[id].attribs) :
        (in[id].attribs[k].name \in UrlAttributeNames /\ HasKeptPrefix(in[id].attribs[k].value))
        => /\ Len(out[id].attribs) = Len(in[id].attribs)
           /\ out[id].attribs[k] = in[id].attribs[k]

\* C10: every src, href, action or data-src value that starts with http, //,
\* #, javascript: or data: has in the output the value it had in the input.
C10_KeptPrefixUnchanged ==
    \A r \in Reqs : Answered(r, 200) => C10_Holds(Input(r), Output(r))

C10_Reached(in, out) ==
    /\ \E id \in ElementIds(in) :
          /\ in[id].name = "img"
          /\ AttrValue(in[id], "src") = "#section"
          /\ AttrValue(out[id], "src") = "#section"
    /\ \E id \in ElementIds(in) :
          /\ in[id].name = "div"
          /\ AttrValue(in[id], "data-src") = "#section"
          /\ AttrValue(out[id], "data-src") = "#section"
          /\ AttrValue(in[id], "src") = "a.png"
          /\ AttrValue(out[id], "src") = "https://a.co/d/a.png"

C10_Witness == \E r \in Reqs : Answered(r, 200) /\ C10_Reached(Input(r), Output(r))

\* The base elements of the input that carry a non-empty href.
C11_BasesWithHref(in) ==
    {b \in ElementIds(in) :
        in[b].name = "base" /\ HasAttr(in[b], "href") /\ AttrValue(in[b], "href") # ""}

C11_Holds(in, out) ==
    C11_BasesWithHref(in) # {} =>
        /\ ByName(out, "base") = ByName(in, "base")
        /\ \A b \in C11_BasesWithHref(in) : AttrValue(out[b], "href") = AttrValue(in[b], "href")

\* C11: when the input document has a base element whose href X is not empty,
\* the output has no base element the input did not have, and the href of that
\* base element is X, character for character, whether X is absolute or
\* relative.
C11_ExistingBaseKept ==
    \A r \in Reqs : Answered(r, 200) => C11_Holds(Input(r), Output(r))

C12_Holds(in, out, u) ==
    ByName(in, "base") = <<>> =>
        /\ Len(ByName(out, "base")) = 1
        /\ \A h \in ElementIds(out) :
              out[h].name = "head" => out[Head(out[h].children)].name = "base"
        /\ out[Head(ByName(out, "base"))].attribs = <<Attr("href", u)>>

\* C12: when the input document has no base element, the output has exactly
\* one, it is the first child of head, and its href is the normalized source
\* URL exactly as the response's originalUrl gives it.
C12_OneBaseInserted ==
    \A r \in Reqs :
        Answered(r, 200) => C12_Holds(Input(r), Output(r), Body(r).originalUrl)

\* The style element the handler injects.
C13_Style == Tag("style", <<>>, <<Text(StyleCss)>>)

\* One style element more than the input had, and the input's own untouched.
C13_OneMore(in, out) ==
    /\ Len(ByName(out, "style")) = Len(ByName(in, "style")) + 1
    /\ \A s \in ElementIds(in) : in[s].name = "style" => ToTerm(out, s) = ToTerm(in, s)

C13_HoldsAsClaimed(in, out) ==
    /\ C13_OneMore(in, out)
    /\ \A h \in ElementIds(out) :
          out[h].name = "head" =>
              /\ out[h].children # <<>>
              /\ ToTerm(out, out[h].children[Len(out[h].children)]) = C13_Style

\* C13 as claimed: every successful rewrite adds exactly one fixed style
\* element, as the last child of head, with the fixed text, whatever style
\* elements the input has.
C13_StyleIsLastChild ==
    \A r \in Reqs : Answered(r, 200) => C13_HoldsAsClaimed(Input(r), Output(r))

C13_HoldsAmended(in, out) ==
    /\ C13_OneMore(in, out)
    /\ \A h \in ElementIds(out) :
          out[h].name = "head" =>
              LET kids == out[h].children
                  n == Len(kids)
              IN  /\ n >= 2
                  /\ ToTerm(out, kids[n - 1]) = C13_Style
                  /\ out[kids[n]].type = "text"
                  /\ out[kids[n]].data = "\n    "

\* C13 amended: every successful rewrite adds exactly one fixed style element
\* to head, as its last element child, followed only by the white-space text
\* that ends the appended markup; the element's text is the fixed text and the
\* input's own style elements are as they were.
C13_StyleIsLastElement ==
    \A r \in Reqs : Answered(r, 200) => C13_HoldsAmended(Input(r), Output(r))

\* A page with a style element of its own, holding Yale, has been rewritten.
C13_Witness ==
    \E r \in Reqs :
        /\ Answered(r, 200)
        /\ \E s \in ElementIds(Input(r)) :
              /\ Input(r)[s].name = "style"
              /\ TextContent(Output(r), s) = "Yale"
        /\ Len(ByName(Output(r), "style")) = 2

\* The children that count for the element structure: empty text nodes print
\* as nothing.
C14_Kids(nodes, kids) ==
    LET Counts(id) == ~(nodes[id].type = "text" /\ nodes[id].data = "")
    IN  SelectSeq(kids, Counts)

\* Same attribute names in the same order; a value is the input's, or a
\* rewritten src, href, action or data-src.
C14_SameAttribs(old, new) ==
    /\ Len(new) = Len(old)
    /\ \A k \in 1..Len(old) :
          /\ new[k].name = old[k].name
          /\ new[k].value = old[k].value \/ old[k].name \in UrlAttributeNames

\* Node o of the output is node i of the input, up to the allowed changes.
RECURSIVE C14_Same(_, _, _, _)
C14_SameKids(in, out, kids, kept) ==
    /\ Len(kept) = Len(kids)
    /\ \A k \in 1..Len(kids) : C14_Same(in, out, kids[k], kept[k])
C14_Same(in, out, i, o) ==
    /\ out[o].type = in[i].type
    /\ out[o].name = in[i].name
    /\ IF in[i].type = "text"
       THEN out[o].data \in {in[i].data, YaleToFale(in[i].data)}
       ELSE /\ out[o].data = in[i].data
            /\ C14_SameAttribs(in[i].attribs, out[o].attribs)
            /\ C14_SameKids(in, out, C14_Kids(in, in[i].children),
                            C14_Kids(out, KeptChildren(in, out, o)))

\* What head gained: the style block, after at most one base element.
C14_Injected(in, out) ==
    \A h \in ElementIds(in) :
        in[h].name = "head" =>
            LET New(id) == id > Len(in)
                gained == SelectSeq(out[h].children, New)
                terms == [k \in 1..Len(gained) |-> ToTerm(out, gained[k])]
            IN  \/ terms = StyleBlock
                \/ /\ Len(terms) = Len(StyleBlock) + 1
                   /\ terms[1].name = "base"
                   /\ Tail(terms) = StyleBlock

\* C14: the output has the input's element tree (same elements, order,
\* nesting and attribute names) but for text changed by the three
\* substitutions only, src, href, action and data-src values rewritten, one
\* injected style element and at most one injected base element; no other
\* element is added or removed and no other text is changed.
C14_SameStructure ==
    \A r \in Reqs :
        Answered(r, 200) =>
            /\ C14_Injected(Input(r), Output(r))
            /\ C14_Same(Input(r), Output(r), 1, 1)

\* The outbound GET of r has been issued and has failed.
C15_FetchFailed(r) ==
    /\ Len(gets[r]) = 1
    /\ pc[r] # "await"
    /\ remote[r].kind = "failure" \/ ~ParseBase(url[r]).ok

\* C15: a request issues at most one outbound GET; once the GET has failed
\* nothing more is fetched or rewritten for the request: the handler is in its
\* catch clause or has sent the failure as the request's single response.
C15_OneGetNoRetry ==
    \A r \in Reqs :
        /\ Len(gets[r]) <= 1
        /\ C15_FetchFailed(r) =>
              /\ dom[r] = NoDom
              /\ \/ pc[r] = "catch" /\ responses[r] = <<>>
                 \/ /\ pc[r] = "done"
                    /\ responses[r] = <<Response(500, FailureBody(error[r]))>>

\* A refused connection has been reported.
C15_Witness ==
    \E r \in Reqs :
        /\ C15_FetchFailed(r)
        /\ remote[r].kind = "failure"
        /\ gets[r] = <<"https://a.co">>
        /\ Answered(r, 500)
        /\ Body(r).error = "Failed to fetch content: connect ECONNREFUSED 127.0.0.1:443"

\* The handler run from start to end on one request, by itself: lines 48-117
\* once the page is there ...
C16_Finished(nodes, u) ==
    LET texted == ProcessEach(nodes, AllElements(nodes))
        titled == SetText(texted, ByName(texted, "title"), TitleOf(texted))
    IN  Response(200, SuccessBody(ToTerm(AddStyle(titled), 1), TitleOf(texted), u))

C16_Fixed(fixed, u) ==
    IF fixed.ok THEN C16_Finished(fixed.nodes, u)
    ELSE Response(500, FailureBody("Invalid URL"))

C16_Rewritten(based, u) ==
    C16_Fixed(FixUrls(based, urlAttributes, ResolutionBase(u, BaseUrlOf(based, u))), u)

\* ... lines 34-39 ...
C16_Fetched(u, m) ==
    IF ~ParseBase(u).ok THEN Response(500, FailureBody("Invalid URL"))
    ELSE IF m.kind = "failure" THEN Response(500, FailureBody(m.message))
    ELSE C16_Rewritten(FixBase(Load(m.page), u), u)

\* ... and lines 22-31.
C16_Alone(v, m) ==
    IF ~Truthy(v) THEN Response(400, [error |-> "URL is required"])
    ELSE IF v.kind # "string" THEN Response(500, FailureBody("url.match is not a function"))
    ELSE C16_Fetched(NormalizeUrl(v.str), m)

\* C16: however the steps of concurrent requests interleave, the response to
\* each request is the one it gets when run alone, a function of its own url
\* and of the body fetched for it, and what the handler holds for a request
\* that has not started fetching owes nothing to the other request.
C16_Isolated ==
    \A r \in Reqs :
        /\ pc[r] = "done" => responses[r] = <<C16_Alone(reqUrl[r], remote[r])>>
        /\ pc[r] # "done" => responses[r] = <<>>
        /\ pc[r] \in {"get", "await"} => url[r] = NormalizeUrl(reqUrl[r].str)

\* One request has been answered while the other, a different one, is in the
\* middle of its rewrite.
C16_Witness ==
    /\ Answered("r1", 200)
    /\ Body("r1").originalUrl = "https://yale.edu"
    /\ pc["r2"] = "text"
    /\ url["r2"] = "https://a.co/d/p"
    /\ dom["r2"] # NoDom

\* Normalization of r's url went through: nothing but `url` was touched on the
\* way to the GET, and a request that ended, or is in its catch clause, had
\* issued its GET.
C17_WentThrough(r) ==
    /\ pc[r] = "get" =>
          /\ gets[r] = <<>>
          /\ responses[r] = <<>>
          /\ error[r] = ""
          /\ dom[r] = NoDom
    /\ pc[r] \in {"catch", "done"} => Len(gets[r]) = 1

\* C17: for every url value that passes the presence check, the normalization
\* step completes without raising an error and does nothing but produce the
\* normalized URL.
C17_NormalizationNeverFails ==
    \A r \in Reqs : Truthy(reqUrl[r]) => C17_WentThrough(r)

\* Call k is the last of its burst: no call came less than `wait` ms after it.
C18_EndsBurst(k) == k = Len(calls) \/ calls[k + 1].at - calls[k].at >= wait

\* The invocations of func that came of call k's timer.
C18_Invocations(k) == {i \in 1..Len(invoked) : invoked[i].call = k}

\* func runs `wait` ms or more after the latest call, with that call's
\* arguments, and no timer runs twice.
C18_LastCallWins ==
    /\ \A i \in 1..Len(invoked) :
          LET k == invoked[i].call
          IN  /\ k \in 1..Len(calls)
              /\ invoked[i].at >= calls[k].at + wait
              /\ invoked[i].args = calls[k].args
              /\ k = Len(calls) \/ calls[k + 1].at >= invoked[i].at
    /\ \A k \in 1..Len(calls) : Cardinality(C18_Invocations(k)) <= 1

\* C18 as claimed: func is not invoked before wait ms have passed since the
\* last call of a burst, is invoked with the arguments of that call, and is
\* invoked exactly once for every burst that is over (a later burst has begun,
\* or no timer is pending).
C18_ExactlyOncePerBurst ==
    /\ C18_LastCallWins
    /\ \A k \in 1..Len(calls) :
          (C18_EndsBurst(k) /\ (k < Len(calls) \/ ~timeout.armed))
          => Cardinality(C18_Invocations(k)) = 1

\* C18 amended: func is not invoked before wait ms have passed since the
\* latest call and is invoked with that call's arguments; a burst gets at most
\* one invocation, for its last call: exactly one once that call's timer has
\* run, none if the next call came before the timer ran.
C18_AtMostOncePerBurst ==
    /\ C18_LastCallWins
    /\ \A k \in 1..Len(calls) :
          /\ ~C18_EndsBurst(k) => C18_Invocations(k) = {}
          /\ (k = Len(calls) /\ ~timeout.armed) => Cardinality(C18_Invocations(k)) = 1
          /\ (k = Len(calls) /\ timeout.armed) => C18_Invocations(k) = {}

\* A burst of two calls, 1 ms apart with a wait of 2 ms, has had its one
\* invocation, with the second call's arguments.
C18_Witness ==
    /\ wait = 2
    /\ calls = <<[at |-> 0, args |-> "a"], [at |-> 1, args |-> "b"]>>
    /\ invoked = <<[at |-> 3, args |-> "b", call |-> 2]>>

\* Submission s starts in this step.
C19_Submitted(s) == handler[s].pc = "idle" /\ handler'[s].pc # "idle"

\* The step ends the handler with this error shown, sends nothing and leaves
\* the loading indicator as it was.
C19_Refused(s, message) ==
    /\ handler'[s].pc = "done"
    /\ errorMessage' = [hidden |-> FALSE, textContent |-> message]
    /\ fetched' = fetched
    /\ loadingElement' = loadingElement

\* C19: on submit, an input that is empty once trimmed gets the error message
\* 'Please enter a valid URL' and one that is not empty but has no '.' gets
\* 'Please enter a valid domain name'; in both cases nothing is sent to /fetch
\* and the submission does not show the loading indicator.
C19_InvalidInputRefused ==
    [][\A s \in Subs :
          C19_Submitted(s) =>
              /\ Trim(urlInput) = "" => C19_Refused(s, "Please enter a valid URL")
              /\ (Trim(urlInput) # "" /\ ~Includes(Trim(urlInput), "."))
                     => C19_Refused(s, "Please enter a valid domain name")]_vars

\* Both submissions were refused, one for an empty input and one for an input
\* without a dot.
C19_Witness ==
    /\ handler["s1"] = Handler("done", "", NoResponse)
    /\ handler["s2"] = Handler("done", "invalidurl", NoResponse)
    /\ errorMessage = [hidden |-> FALSE, textContent |-> "Please enter a valid domain name"]
    /\ fetched = <<>>
    /\ loadingElement = TRUE

\* The input has an http:// or https:// prefix, letter case aside.
C20_HasPrefix(u) == BeginsIgnoringCase(u, "http://") \/ BeginsIgnoringCase(u, "https://")

\* C20: on submit of a valid input without an http:// or https:// prefix the
\* script prepends 'https://', writes the corrected URL into the input field
\* and sends it as the url of the POST body; every url the script sends has
\* the prefix (letter case aside) and the server's normalization leaves it as
\* it is.
C20_ClientAddsScheme ==
    /\ [](\A k \in 1..Len(fetched) :
             /\ C20_HasPrefix(fetched[k].url)
             /\ NormalizeUrl(fetched[k].url) = fetched[k].url)
    /\ [][\A s \in Subs :
             (/\ C19_Submitted(s)
              /\ Trim(urlInput) # ""
              /\ Includes(Trim(urlInput), ".")
              /\ ~C20_HasPrefix(Trim(urlInput)))
             => /\ urlInput' = "https://" \o Trim(urlInput)
                /\ fetched' = Append(fetched, [url |-> "https://" \o Trim(urlInput)])
                /\ handler'[s].url = "https://" \o Trim(urlInput)]_vars

\* ' example.com ' was submitted, and a URL with its scheme after it.
C20_Witness ==
    /\ fetched = <<[url |-> "https://example.com"], [url |-> "HTTPS://A.co"]>>
    /\ handler["s1"].url = "https://example.com"
    /\ handler["s2"].pc = "awaitFetch"
    /\ urlInput = "HTTPS://A.co"

\* The step in which the handler of s finishes after its fetch was rejected,
\* and the one in which it finishes after a response that was not OK.
C21_RejectedEnds(s) == handler[s].pc = "awaitFetch" /\ handler'[s].pc = "done"

C21_NotOkEnds(s) ==
    /\ handler[s].pc = "awaitJson"
    /\ handler'[s].pc = "done"
    /\ ~handler[s].response.ok

\* What the claim has on the page once the handler finished with `message`.
C21_ErrorShown(message) ==
    /\ loadingElement' = TRUE
    /\ errorMessage' = [hidden |-> FALSE, textContent |-> message]
    /\ resultContainer' = TRUE

\* C21: when a submission's request to /fetch fails, with a response that is
\* not OK or with a rejected fetch, then once the handler finishes the loading
\* indicator is hidden, the error message is visible with the server's error
\* field as its text ('Failed to fetch content' when the field is absent, the
\* rejection's message when the fetch or the reading of the body rejected),
\* and the result container is hidden.
C21_FailureShowsError ==
    [][\A s \in Subs :
          /\ C21_RejectedEnds(s) =>
                \E outcome \in FetchOutcomes :
                    outcome.kind = "rejected" /\ C21_ErrorShown(outcome.message)
          /\ C21_NotOkEnds(s) =>
                C21_ErrorShown(IF ~handler[s].response.json THEN handler[s].response.message
                               ELSE IF handler[s].response.data.error # ""
                               THEN handler[s].response.data.error
                               ELSE "Failed to fetch content")]_vars

\* The step in which the handler of s finishes after an OK response with a
\* JSON body.
C22_SuccessEnds(s) ==
    /\ handler[s].pc = "awaitJson"
    /\ handler'[s].pc = "done"
    /\ handler[s].response.ok
    /\ handler[s].response.json

\* C22: when a submission's request to /fetch succeeds, then once the handler
\* finishes the result container is visible, the loading indicator is hidden,
\* the error message is hidden, and showError was not called for the
\* submission (the handler's last step leaves the error message as it was).
C22_SuccessShowsResult ==
    [][\A s \in Subs :
          C22_SuccessEnds(s) =>
              /\ resultContainer' = FALSE
              /\ loadingElement' = TRUE
              /\ errorMessage'.hidden
              /\ errorMessage' = errorMessage]_vars

\* The request of submission s is in flight.
C28_InFlight(s) == handler[s].pc \in {"awaitFetch", "awaitJson"}

\* The handler of s has finished after an OK response with a JSON body.
C28_Succeeded(s) ==
    /\ handler[s].pc = "done"
    /\ handler[s].response.kind = "response"
    /\ handler[s].response.ok
    /\ handler[s].response.json

\* The info bar and the content display show what submission s received.
C28_Shows(s) ==
    /\ originalUrlElement = [textContent |-> handler[s].url, href |-> handler[s].url]
    /\ pageTitleElement = OrElse(handler[s].response.data.title, "No title")
    /\ contentDisplay = Sanitized(handler[s].response.data.content)

\* The loading indicator is visible while a request is in flight.
C28_LoadingWhileInFlight == (\E s \in Subs : C28_InFlight(s)) => loadingElement = FALSE

\* Once two requests for different URLs have both succeeded, the page shows
\* the one submitted last.
C28_LastSubmittedShown ==
    \A s \in Subs :
        (/\ \A o \in Subs : C28_Succeeded(o)
         /\ Len(fetched) = 2
         /\ fetched[1].url # fetched[2].url
         /\ handler[s].url = fetched[2].url)
        => C28_Shows(s)

\* C28: when two submissions overlap, then after both have completed the
\* displayed content, the page title and the original-URL link belong to the
\* URL submitted last, and the loading indicator stays visible for as long as
\* a request is in flight.
C28_LatestSubmissionWins == C28_LoadingWhileInFlight /\ C28_LastSubmittedShown

\* The three replacements applied to x in the order first, second, third.
C26_InOrder(x, first, second, third) ==
    ReplaceAll(ReplaceAll(ReplaceAll(x, first[1], first[2]), second[1], second[2]),
               third[1], third[2])

\* The strings the three replacements give in their six orders.
C26_Orders(x) ==
    {C26_InOrder(x, a, b, c) : <<a, b, c>> \in
        {o \in YaleWords \X YaleWords \X YaleWords : {o[1], o[2], o[3]} = YaleWords}}

\* Every order gives what the code's order gives, and a second application
\* changes nothing.
C26_Algebra(x) ==
    /\ C26_Orders(x) = {YaleToFale(x)}
    /\ YaleToFale(YaleToFale(x)) = YaleToFale(x)

\* After the pass over all elements, which reaches a text node once per
\* ancestor element, the text node holds one application to its old text.
C26_OneApplication(in, out) ==
    \A id \in TextIds(in) :
        /\ C26_Algebra(in[id].data)
        /\ ~InsideScriptOrStyle(in, id) =>
              /\ HasOutputText(in, out, id)
              /\ OutputText(in, out, id) = YaleToFale(in[id].data)

\* The algebra alone, for the texts of the fetched page.
C26_Independent ==
    \A r \in Reqs :
        pc[r] = "title" => \A id \in TextIds(Input(r)) : C26_Algebra(Input(r)[id].data)

\* C26: the three substitutions are independent and their combination is
\* idempotent: applied in any order they give the same string, and applied
\* again they change nothing; hence, although processNode reaches a text node
\* once per ancestor element, after the pass the node's text is one
\* application of the substitution to its original text.
C26_RepeatedVisitsAreOne ==
    \A r \in Reqs : pc[r] = "title" => C26_OneApplication(Input(r), Output(r))

\* The place of a handler's position in the order validate, normalize, fetch,
\* rewrite, respond; the catch clause responds.
C27_Stage(at) ==
    CASE at = "validate" -> 1
      [] at = "normalize" -> 2
      [] at \in {"get", "await"} -> 3
      [] at \in {"load", "base", "urls", "text", "title", "style"} -> 4
      [] at \in {"respond", "catch"} -> 5
      [] OTHER -> 6

\* Every request is answered in the end.
C27_Answered == \A r \in Reqs : <>(Len(responses[r]) = 1)

\* A handler only moves forward, stage by stage unless it fails or answers.
C27_InOrder ==
    [][\A r \in Reqs :
          /\ C27_Stage(pc'[r]) >= C27_Stage(pc[r])
          /\ C27_Stage(pc'[r]) \in {C27_Stage(pc[r]), C27_Stage(pc[r]) + 1, 5, 6}]_vars

\* A response is sent after the outbound GET has completed, or for a request
\* that failed validation.
C27_NotBeforeFetch ==
    [](\A r \in Reqs :
          responses[r] # <<>> =>
              \/ ~Truthy(reqUrl[r]) /\ responses[r][1].status = 400
              \/ Len(gets[r]) = 1 /\ pc[r] \notin {"get", "await"})

\* C27: every POST /fetch request eventually receives a response, provided
\* its outbound fetch eventually completes; the steps occur in the order
\* validate, normalize, fetch, rewrite, respond, and no response is sent
\* before the outbound fetch has completed unless validation failed.
C27_EventuallyAnsweredInOrder == C27_Answered /\ C27_InOrder /\ C27_NotBeforeFetch

\* The step in which the onload handler of the rendered iframe runs.
C23_OnloadRuns == iframe = "written" /\ iframe' = "loaded"

\* After the handler every link of `some` opens in a new tab.
C23_LinksOpenInNewTab(some) ==
    \A k \in DOMAIN links :
        links[k].kind \in some =>
            /\ links'[k].target = "_blank"
            /\ links'[k].rel = "noopener noreferrer"

\* An image that was not complete has both listeners, a complete one has got
\* none.
C23_ImagesListen ==
    \A k \in DOMAIN images :
        /\ ~images[k].complete => images'[k].listeners = {"load", "error"}
        /\ images[k].complete => images'[k].listeners = images[k].listeners

\* The claim for the a elements that are HTML anchors.
C23_HtmlLinksAndImages ==
    [][C23_OnloadRuns => C23_LinksOpenInNewTab({"html"}) /\ C23_ImagesListen]_vars

\* C23: when the rendered iframe's onload runs, every a element of the
\* rendered document gets target '_blank' and rel 'noopener noreferrer', every
\* image that is not yet complete gets a 'load' and an 'error' listener, and
\* no listener is added to an image that is already complete.
C23_OnloadPreparesDocument ==
    [][C23_OnloadRuns => C23_LinksOpenInNewTab({"html", "svg"}) /\ C23_ImagesListen]_vars

\* C24: for one rendered page the iframe height is adjusted at most
\* MAX_HEIGHT_ADJUSTMENTS (10) times in total, whatever sequence of onload,
\* image load or error, resize-observer and timer events occurs.
C24_AtMostTenAdjustments == adjustments <= MAX_HEIGHT_ADJUSTMENTS

\* C25: in every reachable state the height set on the iframe by
\* adjustIframeHeight is at most MAX_IFRAME_HEIGHT (10000) pixels, and
\* heightAdjustmentCount never exceeds MAX_HEIGHT_ADJUSTMENTS (10).
C25_HeightAndCountCapped ==
    /\ iframeHeight <= MAX_IFRAME_HEIGHT
    /\ heightAdjustmentCount <= MAX_HEIGHT_ADJUSTMENTS

\* A document 20000 px high was given the maximum height by the tenth
\* adjustment, and a further call of adjustIframeHeight is pending.
C25_Witness ==
    /\ layout.doc = 20000
    /\ iframeHeight = MAX_IFRAME_HEIGHT
    /\ heightAdjustmentCount = MAX_HEIGHT_ADJUSTMENTS
    /\ adjustments = MAX_HEIGHT_ADJUSTMENTS
    /\ timeout.armed

====
